---- MODULE Spec2Model ----
(***************************************************************************)
(* ISP Wellness Assistant: the symptom scoring and classification core.    *)
(*                                                                         *)
(* JavaScript strings are modelled as sequences of one-character strings,  *)
(* so that String.includes, toLowerCase, trim, split and the duration      *)
(* regular expressions are computed character by character.  A string      *)
(* literal of the source is written C("literal"), its characters.         *)
(* JavaScript numbers are modelled as exact integers in a stated unit      *)
(* (tenths, thousandths, ...), `undefined` as Undefined.                   *)
(***************************************************************************)
EXTENDS Integers, Sequences, FiniteSets, TLC

VARIABLES
    symptoms,   \* string[]: the reported symptom tokens (string literals)
    answers,    \* string[]: the free-text answers (string literals)
    apiKey,     \* whether process.env.GROQ_API_KEY is set and non-blank
    profileAge, \* input.profile.age as sent, "" when the profile gives none
    ran,        \* the set of operations that have been applied to the input
    error,      \* message of the Error thrown, "" when none
    tcClient,   \* result of inferTimeCourse(symptoms, answers)
    tcServer,   \* time course computed by advancedSymptomAnalysis
    diseaseScores, \* Map returned by calculateDiseaseScores (client module)
    scored,     \* result of scoreSymptoms, with its local sorted array
    listed,     \* a ConditionResult[] handed to getDisplayConditions
    shown,      \* result of getDisplayConditions(listed)
    advanced,   \* conditions returned by advancedSymptomAnalysis
    llm,        \* outcome of the last LLM-backed call: its response and result
    reference,  \* the reference tables the process holds (module constants)
    evaluations, \* the calls of the pipeline made so far, with their results
    wizard      \* state of the ISPWellnessApp component and its pending handler

vars == <<symptoms, answers, apiKey, profileAge, ran, error, tcClient, tcServer,
          diseaseScores, scored, listed, shown, advanced, llm, reference, evaluations, wizard>>

processVars == <<reference, evaluations>>

simpleVars == <<diseaseScores, scored>>
displayVars == <<listed, shown>>


\* ------------------------------------------------------------------------
\* Bounds of the model
\* ------------------------------------------------------------------------
MaxTokens == 2

MaxScenario == 3

MaxEvaluations == 3

MaxSymptoms == 2
MaxAnswers == 1
MaxWeeks == 13
MaxReported == 7
MaxListed == 6
MaxAdvanced == 3

\* The characters of a string literal of the source.
C(s) == [i \in 1..Len(s) |-> SubSeq(s, i, i)]

\* ------------------------------------------------------------------------
\* JavaScript string primitives
\* ------------------------------------------------------------------------
Undefined == 0 - 1

UpperCase == <<"A","B","C","D","E","F","G","H","I","J","K","L","M",
               "N","O","P","Q","R","S","T","U","V","W","X","Y","Z">>
LowerCase == <<"a","b","c","d","e","f","g","h","i","j","k","l","m",
               "n","o","p","q","r","s","t","u","v","w","x","y","z">>
DigitChars == <<"0","1","2","3","4","5","6","7","8","9">>

IsDigit(c) == c \in {"0", "1", "2", "3", "4", "5", "6", "7", "8", "9"}
DigitVal(c) == (CHOOSE i \in 1..10 : DigitChars[i] = c) - 1
\* \s of a regular expression, and the characters String.trim removes
IsSpace(c) == c \in {" ", "\n", "\t"}

LowerChar(c) ==
    IF \E i \in 1..26 : UpperCase[i] = c
    THEN LowerCase[CHOOSE i \in 1..26 : UpperCase[i] = c]
    ELSE c

\* String.prototype.toLowerCase
ToLowerCase(t) == [i \in 1..Len(t) |-> LowerChar(t[i])] \o <<>>

\* needle occurs in t starting at index i (1-based)
StartsAt(t, i, needle) ==
    /\ i >= 1
    /\ i + Len(needle) - 1 <= Len(t)
    /\ \A j \in 1..Len(needle) : t[i + j - 1] = needle[j]

\* String.prototype.includes
Includes(t, needle) ==
    \E i \in 0..(Len(t) - Len(needle)) : \A j \in 1..Len(needle) : t[i + j] = needle[j]

\* String.prototype.trim
Trim(t) ==
    LET keep == {i \in 1..Len(t) : ~IsSpace(t[i])}
    IN  IF keep = {} THEN <<>>
        ELSE LET lo == CHOOSE i \in keep : \A j \in keep : i <= j
                 hi == CHOOSE i \in keep : \A j \in keep : i >= j
             IN  SubSeq(t, lo, hi)

\* Array.prototype.join over strings already turned into characters
RECURSIVE Join(_, _)
Join(parts, sep) ==
    IF Len(parts) = 0 THEN <<>>
    ELSE IF Len(parts) = 1 THEN parts[1]
    ELSE parts[1] \o sep \o Join(Tail(parts), sep)

\* the characters of every element of a string[] of literals
CharsOf(list) == [i \in 1..Len(list) |-> C(list[i])]

\* parseInt of a run of decimal digits
RECURSIVE ParseInt(_)
ParseInt(ds) ==
    IF Len(ds) = 0 THEN 0
    ELSE ParseInt(SubSeq(ds, 1, Len(ds) - 1)) * 10 + DigitVal(ds[Len(ds)])

\* index just after the longest run of digits / of white space starting at i
RECURSIVE DigitsEnd(_, _)
DigitsEnd(t, i) == IF i <= Len(t) /\ IsDigit(t[i]) THEN DigitsEnd(t, i + 1) ELSE i
RECURSIVE SpacesEnd(_, _)
SpacesEnd(t, i) == IF i <= Len(t) /\ IsSpace(t[i]) THEN SpacesEnd(t, i + 1) ELSE i

\* ------------------------------------------------------------------------
\* Duration regular expressions: /(\d+)\s*(?:unit...)/i and
\* /(?:for|since|over|last)\s+(\d+)\s*(?:unit...)/i on lower-cased text.
\* A pattern is [prefixed, units, multiplier]; units lists the alternatives.
\* ------------------------------------------------------------------------
\* Number.prototype.toString for a non-negative integer
RECURSIVE ToDigits(_)
ToDigits(n) ==
    IF n < 10 THEN <<DigitChars[n + 1]>>
    ELSE ToDigits(n \div 10) \o <<DigitChars[(n % 10) + 1]>>

DurationPrefixes == <<"for", "since", "over", "last">>

\* (\d+)\s*(?:units) matches with the digits starting at index i
NumberUnitAt(t, i, units) ==
    /\ i <= Len(t)
    /\ IsDigit(t[i])
    /\ \E u \in 1..Len(units) :
          StartsAt(t, SpacesEnd(t, DigitsEnd(t, i)), C(units[u]))

\* the whole pattern matches starting at index i
PatternAt(t, i, pat) ==
    IF pat.prefixed
    THEN \E p \in 1..Len(DurationPrefixes) :
            LET w == C(DurationPrefixes[p])
                s == i + Len(w)
            IN  /\ StartsAt(t, i, w)
                /\ s <= Len(t) /\ IsSpace(t[s])
                /\ NumberUnitAt(t, SpacesEnd(t, s), pat.units)
    ELSE NumberUnitAt(t, i, pat.units)

\* text.match(regex): match[1] as a number, Undefined when there is no match
RegexCapture(t, pat) ==
    LET hits == {i \in 1..Len(t) : PatternAt(t, i, pat)}
    IN  IF hits = {} THEN Undefined
        ELSE LET i == CHOOSE h \in hits : \A g \in hits : h <= g
                 d == IF pat.prefixed
                      THEN SpacesEnd(t, i + Len(C(DurationPrefixes[
                               CHOOSE p \in 1..Len(DurationPrefixes) :
                                   StartsAt(t, i, C(DurationPrefixes[p]))])))
                      ELSE i
             IN  ParseInt(SubSeq(t, d, DigitsEnd(t, d) - 1))

\* for (const {pattern, multiplier} of durationPatterns): first match wins
RECURSIVE FirstDuration(_, _, _)
FirstDuration(t, pats, k) ==
    IF k > Len(pats) THEN Undefined
    ELSE LET n == RegexCapture(t, pats[k])
         IN  IF n # Undefined THEN n * pats[k].multiplier
             ELSE FirstDuration(t, pats, k + 1)

\* JavaScript truthiness of a number | undefined (0 is falsy)
Truthy(n) == n # Undefined /\ n # 0

\* ------------------------------------------------------------------------
\* Client-side time-course inference (timeInference.ts)
\* ------------------------------------------------------------------------
ClientDurationPatterns == <<
    [prefixed |-> FALSE, units |-> <<"days", "day", "d">>,      multiplier |-> 1],
    [prefixed |-> FALSE, units |-> <<"weeks", "week", "w">>,    multiplier |-> 7],
    [prefixed |-> FALSE, units |-> <<"months", "month", "mo">>, multiplier |-> 30],
    [prefixed |-> FALSE, units |-> <<"years", "year", "y">>,    multiplier |-> 365],
    [prefixed |-> TRUE,  units |-> <<"days", "day", "d">>,      multiplier |-> 1],
    [prefixed |-> TRUE,  units |-> <<"weeks", "week", "w">>,    multiplier |-> 7],
    [prefixed |-> TRUE,  units |-> <<"months", "month", "mo">>, multiplier |-> 30] >>

extractDurationFromText(text) == FirstDuration(text, ClientDurationPatterns, 1)

\* the explicit pattern cues, shared verbatim by both extractors
ExplicitPattern(text, duration_days) ==
    IF \/ Includes(text, C("relapsing")) \/ Includes(text, C("comes and goes"))
       \/ Includes(text, C("waxing")) \/ Includes(text, C("waning"))
       \/ Includes(text, C("on and off")) \/ Includes(text, C("episodic"))
    THEN "relapsing"
    ELSE IF \/ Includes(text, C("progressive")) \/ Includes(text, C("getting worse"))
            \/ Includes(text, C("worsening")) \/ Includes(text, C("gradually worse"))
    THEN "progressive"
    ELSE IF \/ Includes(text, C("chronic")) \/ Includes(text, C("long-term"))
            \/ Includes(text, C("persistent"))
            \/ (Truthy(duration_days) /\ duration_days > 90)
    THEN "chronic"
    ELSE IF \/ Includes(text, C("sudden")) \/ Includes(text, C("acute"))
            \/ (Truthy(duration_days) /\ duration_days <= 14)
    THEN "acute"
    ELSE "unknown"

\* duration_days || n
OrElse(duration_days, n) == IF Truthy(duration_days) THEN duration_days ELSE n

\* the "Build interpretation if not set" block: the duration sentence followed
\* by the pattern sentence; a string is the sequence of the literals appended
BuildInterpretation(duration_days, pattern) ==
    (IF ~Truthy(duration_days) THEN <<>>
     ELSE IF duration_days > 90
     THEN <<"Symptoms have been present for over 3 months, suggesting a chronic condition.">>
     ELSE IF duration_days > 21
     THEN <<"Symptoms lasting over 3 weeks suggest a chronic rather than acute condition.">>
     ELSE IF duration_days > 14
     THEN <<"Symptoms lasting over 2 weeks suggest a chronic condition rather than an acute illness.">>
     ELSE <<"Recent onset (within 2 weeks) may indicate an acute condition.">>)
    \o
    (IF pattern = "relapsing"
     THEN <<" Relapsing pattern suggests an autoimmune or episodic condition.">>
     ELSE IF pattern = "progressive"
     THEN <<" Progressive pattern suggests a neurologic or degenerative condition.">>
     ELSE IF pattern = "chronic"
     THEN <<" Chronic pattern suggests a long-standing condition.">>
     ELSE <<>>)

\* the characters of a string built by appending literals; !s is IsEmptyString
StringOf(parts) == Join(CharsOf(parts), <<>>)
IsEmptyString(parts) == Len(StringOf(parts)) = 0

DefaultInterpretation ==
    <<"Symptom pattern suggests a chronic condition. More specific timing information would improve accuracy.">>

\* the conditions of the symptom-specific inference rules
WeightLossRule(symptomsLower) == Includes(symptomsLower, C("weight loss"))

CardiacRule(text, symptomsLower) ==
    /\ (Includes(symptomsLower, C("palpitation")) \/ Includes(symptomsLower, C("heart")))
    /\ (Includes(text, C("worse")) \/ Includes(text, C("increase"))
        \/ Includes(text, C("frequent")))

TremorRule(symptomsLower) ==
    /\ (Includes(symptomsLower, C("tremor")) \/ Includes(symptomsLower, C("shaking")))
    /\ (Includes(symptomsLower, C("anxiety")) \/ Includes(symptomsLower, C("nervous")))

NeuroRule(symptomsLower) ==
    \/ Includes(symptomsLower, C("numbness")) \/ Includes(symptomsLower, C("tingling"))
    \/ Includes(symptomsLower, C("weakness")) \/ Includes(symptomsLower, C("vision problem"))

NeuroPattern(text) ==
    IF Includes(text, C("worse")) \/ Includes(text, C("progress"))
    THEN "progressive" ELSE "chronic"

\* the "Deterministic inference rules" block: applies when the explicit pass
\* left the pattern unknown OR found no duration
InferenceRules(text, symptomsLower, duration_days, pattern) ==
    IF WeightLossRule(symptomsLower)
    THEN [duration_days |-> OrElse(duration_days, 21), pattern |-> "chronic",
          interpretation |-> <<"Weight loss patterns typically develop over weeks to months, suggesting a chronic process.">>]
    ELSE IF CardiacRule(text, symptomsLower)
    THEN [duration_days |-> OrElse(duration_days, 30), pattern |-> "progressive",
          interpretation |-> <<"Cardiac symptoms with progression suggest a chronic progressive pattern.">>]
    ELSE IF TremorRule(symptomsLower)
    THEN [duration_days |-> OrElse(duration_days, 60), pattern |-> "chronic",
          interpretation |-> <<"Tremor with anxiety-like symptoms suggests a chronic endocrine or metabolic condition.">>]
    ELSE IF NeuroRule(symptomsLower)
    THEN [duration_days |-> OrElse(duration_days, 45),
          pattern |-> NeuroPattern(text),
          interpretation |-> <<"Neurological symptoms suggest a chronic or progressive pattern.">>]
    ELSE IF ~Truthy(duration_days)
    THEN [duration_days |-> 30, pattern |-> "chronic",
          interpretation |-> DefaultInterpretation]
    ELSE [duration_days |-> duration_days, pattern |-> pattern, interpretation |-> <<>>]

\* (symptoms.join(' ') + ' ' + answers.join(' ')).toLowerCase()
ClientText(syms, ans) ==
    ToLowerCase(Join(CharsOf(syms), <<" ">>) \o <<" ">> \o Join(CharsOf(ans), <<" ">>))

inferTimeCourse(syms, ans) ==
    LET text == ClientText(syms, ans)
        symptomsLower == ToLowerCase(Join(CharsOf(syms), <<" ">>))
        duration0 == extractDurationFromText(text)
        pattern0 == ExplicitPattern(text, duration0)
        derived == pattern0 = "unknown" \/ ~Truthy(duration0)
        inf == IF derived
               THEN InferenceRules(text, symptomsLower, duration0, pattern0)
               ELSE [duration_days |-> duration0, pattern |-> pattern0, interpretation |-> <<>>]
        built == IF IsEmptyString(inf.interpretation)
                 THEN BuildInterpretation(inf.duration_days, inf.pattern)
                 ELSE inf.interpretation
    IN  [duration_days |-> inf.duration_days,
         pattern |-> inf.pattern,
         interpretation |-> IF IsEmptyString(built) THEN DefaultInterpretation ELSE built,
         derived |-> derived]

\* ------------------------------------------------------------------------
\* Server-side time-course extraction (time-course-logic)
\* ------------------------------------------------------------------------
ServerDurationPatterns ==
    ClientDurationPatterns \o
    << [prefixed |-> TRUE, units |-> <<"years", "year", "y">>, multiplier |-> 365] >>

\* the server's tremor rule also accepts 'panic'
ServerTremorRule(symptomsLower) ==
    /\ (Includes(symptomsLower, C("tremor")) \/ Includes(symptomsLower, C("shaking")))
    /\ (Includes(symptomsLower, C("anxiety")) \/ Includes(symptomsLower, C("nervous"))
        \/ Includes(symptomsLower, C("panic")))

\* the "If pattern is unknown, infer from symptom types" block: four
\* independent ifs, each overwriting what the previous ones set, then the
\* "still unknown but we have duration" fallback
ServerInference(text, symptomsLower, duration0) ==
    LET s0 == [duration_days |-> duration0, pattern |-> "unknown", derived |-> FALSE]
        s1 == IF WeightLossRule(symptomsLower) /\ ~Truthy(s0.duration_days)
              THEN [duration_days |-> 21, pattern |-> "chronic", derived |-> TRUE]
              ELSE s0
        s2 == IF CardiacRule(text, symptomsLower)
              THEN [duration_days |-> OrElse(s1.duration_days, 30),
                    pattern |-> "progressive", derived |-> TRUE]
              ELSE s1
        s3 == IF ServerTremorRule(symptomsLower)
              THEN [duration_days |-> OrElse(s2.duration_days, 60),
                    pattern |-> "chronic", derived |-> TRUE]
              ELSE s2
        s4 == IF NeuroRule(symptomsLower)
              THEN [duration_days |-> OrElse(s3.duration_days, 45),
                    pattern |-> NeuroPattern(text),
                    derived |-> TRUE]
              ELSE s3
    IN  IF s4.pattern = "unknown" /\ Truthy(s4.duration_days)
        THEN [duration_days |-> s4.duration_days,
              pattern |-> IF s4.duration_days > 14 THEN "chronic" ELSE "acute",
              derived |-> TRUE]
        ELSE s4

\* (symptoms + ' ' + answers.join(' ')).toLowerCase()
ServerText(symptomsText, ans) == ToLowerCase(symptomsText \o <<" ">> \o Join(ans, <<" ">>))

\* symptomsText is the raw symptom string, ans the answers array
extractTimeCourseData(symptomsText, ans) ==
    LET text == ServerText(symptomsText, ans)
        symptomsLower == ToLowerCase(symptomsText)
        duration0 == FirstDuration(text, ServerDurationPatterns, 1)
        pattern0 == ExplicitPattern(text, duration0)
    IN  IF pattern0 = "unknown"
        THEN ServerInference(text, symptomsLower, duration0)
        ELSE [duration_days |-> duration0, pattern |-> pattern0, derived |-> FALSE]

\* a variant that has no sentence for the acute pattern
PatternOnlyInterpretation_NoAcute(pattern) ==
    IF pattern = "relapsing"
    THEN <<"Relapsing pattern suggests an autoimmune or episodic condition.">>
    ELSE IF pattern = "progressive"
    THEN <<"Progressive pattern suggests a neurologic or degenerative condition.">>
    ELSE IF pattern = "chronic"
    THEN <<"Chronic pattern suggests a long-standing condition.">>
    ELSE <<>>

\* "We have pattern but not duration"
PatternOnlyInterpretation(pattern) ==
    IF pattern = "relapsing"
    THEN <<"Relapsing pattern suggests an autoimmune or episodic condition.">>
    ELSE IF pattern = "progressive"
    THEN <<"Progressive pattern suggests a neurologic or degenerative condition.">>
    ELSE IF pattern = "chronic"
    THEN <<"Chronic pattern suggests a long-standing condition.">>
    ELSE IF pattern = "acute"
    THEN <<"Acute pattern suggests a recent-onset condition.">>
    ELSE <<>>

\* the "Improved time-course interpretation" block of advancedSymptomAnalysis;
\* syms is the split symptom list (characters)
timeCourseInterpretation(timeCourse, syms) ==
    IF Truthy(timeCourse.duration_days)
    THEN (IF timeCourse.duration_days > 90
          THEN <<"Symptoms have been present for over 3 months, suggesting a chronic condition.">>
          ELSE IF timeCourse.duration_days > 21
          THEN <<"Symptoms lasting over 3 weeks suggest a chronic rather than acute condition.">>
          ELSE IF timeCourse.duration_days > 14
          THEN <<"Symptoms lasting over 2 weeks suggest a chronic condition rather than an acute illness.">>
          ELSE <<"Recent onset (within 2 weeks) may indicate an acute condition.">>)
         \o (IF timeCourse.derived THEN <<" (inferred from symptom pattern)">> ELSE <<>>)
    ELSE IF timeCourse.pattern # "unknown"
    THEN PatternOnlyInterpretation(timeCourse.pattern)
    ELSE IF \E i \in 1..Len(syms) : Includes(ToLowerCase(syms[i]), C("weight loss"))
    THEN <<"Weight loss patterns typically develop over weeks to months, suggesting a chronic process.">>
    ELSE IF \E i \in 1..Len(syms) :
                \/ Includes(ToLowerCase(syms[i]), C("palpitation"))
                \/ Includes(ToLowerCase(syms[i]), C("heart"))
    THEN <<"Cardiac symptoms with progression suggest a chronic pattern.">>
    ELSE DefaultInterpretation

\* extractSymptomsList: split(/[,;]|\n/), trim every piece, drop the empty ones
IsDelimiter(c) == c \in {",", ";", "\n"}
RECURSIVE Split(_)
Split(t) ==
    LET cuts == {i \in 1..Len(t) : IsDelimiter(t[i])}
    IN  IF cuts = {} THEN <<t>>
        ELSE LET i == CHOOSE c \in cuts : \A d \in cuts : c <= d
             IN  <<SubSeq(t, 1, i - 1)>> \o Split(SubSeq(t, i + 1, Len(t)))

RECURSIVE TrimAll(_)
TrimAll(pieces) ==
    IF Len(pieces) = 0 THEN <<>>
    ELSE <<Trim(Head(pieces))>> \o TrimAll(Tail(pieces))

extractSymptomsList(symptomsText) ==
    SelectSeq(TrimAll(Split(symptomsText)), LAMBDA s : Len(s) > 0)

\* ------------------------------------------------------------------------
\* LLM-backed decoration: symptom extraction, wellness summary, explanation
\* ------------------------------------------------------------------------
\* A function body either returns a value or throws; try { } catch { } runs its
\* handler exactly when the body threw.
Threw == [threw |-> TRUE, value |-> <<>>]
Returned(v) == [threw |-> FALSE, value |-> v]
Catch(attempt, handler) == IF attempt.threw THEN handler ELSE attempt

\* What the remote call can do: the request is rejected (network, 401), the
\* status is not OK, the body is not JSON, the body has no `choices`, the
\* first choice carries no content, or it carries some content.
FailureKinds == {"rejected", "notOk", "bodyNotJson", "noChoices"}
LlmContents == {"", "  ", "It fits the symptoms. ", "null", "{}", "{\"symptoms\":[\"fatigue\"]}"}
Responses ==
    {[kind |-> k, content |-> ""] : k \in FailureKinds \cup {"noContent"}}
        \cup {[kind |-> "content", content |-> c] : c \in LlmContents}

\* await fetch(...); if (!response.ok) throw; await response.json();
\* data.choices[0]?.message?.content || '{}'
FetchContent(response) ==
    IF response.kind \in FailureKinds THEN Threw
    ELSE IF response.kind = "noContent" \/ response.content = "" THEN Returned("{}")
    ELSE Returned(response.content)

\* JSON.parse on the contents the model sends: null, an empty object, an
\* object naming symptoms; anything else is a SyntaxError
JsonNull == [null |-> TRUE]
JsonParse(content) ==
    IF content = "null" THEN Returned(JsonNull)
    ELSE IF content = "{}" THEN Returned([fields |-> {}])
    ELSE IF content = "{\"symptoms\":[\"fatigue\"]}"
    THEN Returned([fields |-> {"symptoms"}, symptoms |-> <<C("fatigue")>>])
    ELSE Threw

FallbackDurationPatterns == SubSeq(ClientDurationPatterns, 1, 3)

extractSymptomDataFallback(symptomsText, answersText) ==
    [symptoms |-> extractSymptomsList(symptomsText),
     duration_days |-> FirstDuration(ToLowerCase(symptomsText \o <<" ">> \o answersText),
                                     FallbackDurationPatterns, 1),
     triggers |-> <<>>,
     qualifiers |-> <<>>]

\* the object built from JSON.parse(content): a property read of null throws
ExtractedData(parsed) ==
    IF parsed = JsonNull THEN Threw
    ELSE Returned([symptoms |-> IF "symptoms" \in parsed.fields THEN parsed.symptoms ELSE <<>>,
                   duration_days |-> Undefined,
                   triggers |-> <<>>,
                   qualifiers |-> <<>>])

\* the inner try { JSON.parse ... } catch (parseError) { fallback }
ParseExtracted(content, fallback) ==
    Catch(IF JsonParse(content).threw THEN Threw ELSE ExtractedData(JsonParse(content).value),
          Returned(fallback))

\* a variant whose outer try has no catch: a failed request reaches the caller
extractSymptomData_NoCatch(key, symptomsText, answersText, response) ==
    IF ~key THEN Returned(extractSymptomDataFallback(symptomsText, answersText))
    ELSE IF FetchContent(response).threw THEN Threw
    ELSE ParseExtracted(FetchContent(response).value,
                        extractSymptomDataFallback(symptomsText, answersText))

extractSymptomData(key, symptomsText, answersText, response) ==
    IF ~key THEN Returned(extractSymptomDataFallback(symptomsText, answersText))
    ELSE Catch(IF FetchContent(response).threw THEN Threw
               ELSE ParseExtracted(FetchContent(response).value,
                                   extractSymptomDataFallback(symptomsText, answersText)),
               Returned(extractSymptomDataFallback(symptomsText, answersText)))

\* generateWellnessSummary, the fields that depend on the response (the profile,
\* the answer key and the safety notice are copied in both branches)
DefaultTimeCourse ==
    "Based on the symptom pattern, this appears to be a chronic condition that developed over time."
FallbackTimeCourse ==
    "Based on the symptom pattern, this appears to be a chronic condition that developed over time. More specific timing information would help improve accuracy."

WellnessFallback(symptomsText) ==
    [reportedSymptoms |-> extractSymptomsList(symptomsText),
     systemClassification |-> <<"metabolic/nutritional">>,
     timeCourseInterpretation |-> FallbackTimeCourse,
     topConditions |-> <<>>]

\* parsed.systemClassification || [], ... : the contents sent name none of them
WellnessParsed(parsed, symptomsText) ==
    IF parsed = JsonNull THEN Threw
    ELSE Returned([reportedSymptoms |-> extractSymptomsList(symptomsText),
                   systemClassification |-> <<>>,
                   timeCourseInterpretation |-> DefaultTimeCourse,
                   topConditions |-> <<>>])

WellnessAttempt(key, symptomsText, response) ==
    IF ~key THEN Threw
    ELSE IF FetchContent(response).threw THEN Threw
    ELSE IF JsonParse(FetchContent(response).value).threw THEN Threw
    ELSE WellnessParsed(JsonParse(FetchContent(response).value).value, symptomsText)

generateWellnessSummary(key, symptomsText, response) ==
    Catch(WellnessAttempt(key, symptomsText, response), Returned(WellnessFallback(symptomsText)))

\* generateConditionExplanation: the SDK call rejects on a failed request, a
\* non-OK status and an unparsable body; the content is plain text
FallbackExplanation == "This condition may be considered based on your reported symptoms."

\* completion.choices[0]?.message?.content?.trim() || fallback
ExplanationAttempt(response) ==
    IF response.kind \in FailureKinds THEN Threw
    ELSE IF response.kind = "noContent" \/ Trim(C(response.content)) = <<>>
    THEN Returned(C(FallbackExplanation))
    ELSE Returned(Trim(C(response.content)))

generateConditionExplanation(response) ==
    Catch(ExplanationAttempt(response), Returned(C(FallbackExplanation)))

\* ------------------------------------------------------------------------
\* Inputs
\* ------------------------------------------------------------------------
SeqsUpTo(S, n) == UNION {[1..k -> S] : k \in 0..n}

\* the lists that name no token twice
Distinct(lists) ==
    {s \in lists : \A i \in 1..Len(s) : \A j \in 1..Len(s) : i # j => s[i] # s[j]}

\* symptom tokens and answers that reach every rule of the time-course code
TimeSymptoms == {"weight loss", "heart palpitations", "tremor and anxiety",
                 "Numbness", "fatigue"}
TimeAnswers == {"for 1 week", "for 3 weeks", "for 12 weeks", "for 13 weeks",
                "it comes and goes", "getting worse", "persistent",
                "Sudden onset", "more frequent lately"}

\* the symptom text as the user types it: the tokens separated by ", "
SymptomsText(syms) == Join(CharsOf(syms), <<",", " ">>)

NoTimeCourse == [duration_days |-> Undefined, pattern |-> "unknown",
                 interpretation |-> <<>>, derived |-> FALSE]

\* ------------------------------------------------------------------------
\* Specification SpecTime: the two time-course extractors as pure functions
\* ------------------------------------------------------------------------
\* the parts of the state a specification does not use
NoResult == [conditions |-> <<>>, redFlags |-> [flags |-> <<>>, urgent |-> FALSE],
             label |-> <<>>, ranked |-> <<>>, normalized |-> <<>>]
NoDisplay == [conditions |-> <<>>, label |-> <<>>]

IdleTime == tcClient = NoTimeCourse /\ tcServer = NoTimeCourse
IdleSimple == diseaseScores = <<>> /\ scored = NoResult
IdleDisplay == listed = <<>> /\ shown = NoDisplay
NoAdvanced == [conditions |-> <<>>, dominant_clusters |-> <<>>, red_flags |-> <<>>,
               time_course |-> [duration_days |-> Undefined, pattern |-> "unknown",
                                interpretation |-> <<>>]]
IdleAdvanced == advanced = NoAdvanced

NoLlm == [call |-> "", response |-> [kind |-> "", content |-> ""],
          threw |-> FALSE, value |-> <<>>]
IdleLlm == llm = NoLlm

NoReference == [symptomWeights |-> <<>>, diseases |-> <<>>]
\* the component as useState initializes it, no handler pending
NoWizard ==
    [currentScreen |-> "welcome", profile |-> FALSE, currentQuestionIndex |-> 0,
     questions |-> <<>>, answers |-> <<>>, pending |-> ""]

IdleWizard == wizard = NoWizard

IdleProcess == reference = NoReference /\ evaluations = <<>> /\ IdleWizard

InitTime ==
    /\ symptoms \in Distinct(SeqsUpTo(TimeSymptoms, MaxSymptoms))
    /\ answers \in SeqsUpTo(TimeAnswers, MaxAnswers)
    /\ apiKey \in BOOLEAN
    /\ profileAge = ""
    /\ ran = {}
    /\ error = ""
    /\ tcClient = NoTimeCourse
    /\ tcServer = NoTimeCourse
    /\ IdleSimple /\ IdleDisplay /\ IdleAdvanced /\ IdleLlm /\ IdleProcess

InferTimeCourse ==
    /\ ran = {}
    /\ tcClient' = inferTimeCourse(symptoms, answers)
    /\ ran' = ran \cup {"inferTimeCourse"}
    /\ UNCHANGED <<symptoms, answers, apiKey, profileAge, processVars, wizard, llm, error, tcServer, simpleVars, displayVars, advanced>>

\* input.questionnaireAnswers: the answers as the one string the caller sends
QuestionnaireAnswers(ans) == Join(CharsOf(ans), <<" ">>)

\* the time_course part of advancedSymptomAnalysis: the extractTimeCourseData
\* call followed by the interpretation block
serverTimeCourse(input, questionnaireAnswers) ==
    LET tc == extractTimeCourseData(input, <<questionnaireAnswers>>)
    IN  [duration_days |-> tc.duration_days,
         pattern |-> tc.pattern,
         interpretation |-> timeCourseInterpretation(tc, extractSymptomsList(input)),
         derived |-> tc.derived]

\* the guards at the head of advancedSymptomAnalysis: "" when it goes on
advancedGuards(key, input) ==
    IF ~key THEN "GROQ_API_KEY is not set. Please add it to your .env.local file."
    ELSE IF Len(extractSymptomsList(input)) = 0 THEN "No symptoms detected"
    ELSE ""

\* advancedSymptomAnalysis, as far as its time_course output goes
AdvancedTimeCourse ==
    /\ ran = {}
    /\ ran' = ran \cup {"advancedSymptomAnalysis"}
    /\ error' = advancedGuards(apiKey, SymptomsText(symptoms))
    /\ tcServer' = IF error' = ""
                   THEN serverTimeCourse(SymptomsText(symptoms), QuestionnaireAnswers(answers))
                   ELSE tcServer
    /\ UNCHANGED <<symptoms, answers, apiKey, profileAge, processVars, wizard, llm, tcClient, simpleVars, displayVars, advanced>>

NextTime == InferTimeCourse \/ AdvancedTimeCourse

SpecTime == InitTime /\ [][NextTime]_vars

\* ------------------------------------------------------------------------
\* Properties of the time-course extractors (SpecTime)
\* ------------------------------------------------------------------------
ConcretePatterns == {"acute", "relapsing", "progressive", "chronic"}

ClientRan == "inferTimeCourse" \in ran
ServerRan == "advancedSymptomAnalysis" \in ran /\ error = ""

\* the text states the duration "for N week(s)"
StatesWeeks(text, N) == Includes(text, C("for ") \o ToDigits(N) \o C(" week"))

\* ... and no other duration
StatesOnlyWeeks(text, N) ==
    /\ StatesWeeks(text, N)
    /\ \A M \in (1..MaxWeeks) \ {N} : ~StatesWeeks(text, M)

\* the text extractTimeCourseData works on in advancedSymptomAnalysis
InputText == ServerText(SymptomsText(symptoms), <<QuestionnaireAnswers(answers)>>)

\* C3: inferTimeCourse never returns the pattern 'unknown'.
\* (The code leaves it 'unknown' for an explicit duration of 15..90 days with
\* no cue and no symptom rule.)
C3_ClientPatternNeverUnknown ==
    ClientRan => tcClient.pattern \in ConcretePatterns

\* C4: the interpretation built by inferTimeCourse, and the one built by the
\* time-course block of advancedSymptomAnalysis, is non-empty and contains
\* neither "not available" nor "unavailable", for every input.
InterpretationOk(parts) ==
    /\ ~IsEmptyString(parts)
    /\ ~Includes(ToLowerCase(StringOf(parts)), C("not available"))
    /\ ~Includes(ToLowerCase(StringOf(parts)), C("unavailable"))

C5_ExplicitWeeksNotDerived ==
    \A N \in 1..MaxWeeks :
        /\ (ClientRan /\ StatesOnlyWeeks(ClientText(symptoms, answers), N))
              => (tcClient.duration_days = 7 * N /\ tcClient.derived = FALSE)
        /\ (ServerRan /\ StatesOnlyWeeks(InputText, N))
              => (tcServer.duration_days = 7 * N /\ tcServer.derived = FALSE)

\* C6: when the text carries an explicit pattern cue, inferTimeCourse returns
\* the pattern of that cue.
\* (The code lets a symptom rule overwrite it when no duration is stated.)
C6_ExplicitCueWins ==
    LET cue == ExplicitPattern(ClientText(symptoms, answers), Undefined)
    IN  (ClientRan /\ cue # "unknown") => tcClient.pattern = cue

\* no duration, no cue and no symptom rule matches the server's input
NothingMatches(symptomsText, ans) ==
    LET text == ServerText(symptomsText, ans)
        symptomsLower == ToLowerCase(symptomsText)
    IN  /\ FirstDuration(text, ServerDurationPatterns, 1) = Undefined
        /\ ExplicitPattern(text, Undefined) = "unknown"
        /\ ~WeightLossRule(symptomsLower)
        /\ ~CardiacRule(text, symptomsLower)
        /\ ~ServerTremorRule(symptomsLower)
        /\ ~NeuroRule(symptomsLower)

\* C7: when nothing matches, extractTimeCourseData returns chronic / 30 days /
\* derived, so the pattern reported by advancedSymptomAnalysis is not 'unknown'.
\* (The code returns unknown / undefined / not derived.)
C7_ServerDefaultsToChronic ==
    (ServerRan /\ NothingMatches(SymptomsText(symptoms), <<QuestionnaireAnswers(answers)>>))
        => /\ tcServer.pattern = "chronic"
           /\ tcServer.duration_days = 30
           /\ tcServer.derived = TRUE

\* ------------------------------------------------------------------------
\* Reference tables.  Weights and relevance factors are in tenths.
\* Table order is the insertion order of the source (Object.entries order).
\* ------------------------------------------------------------------------
SYMPTOM_WEIGHTS == <<
    [key |-> C("fever"), severity_weight |-> 7, specificity_weight |-> 3],
    [key |-> C("headache"), severity_weight |-> 5, specificity_weight |-> 2],
    [key |-> C("fatigue"), severity_weight |-> 6, specificity_weight |-> 2],
    [key |-> C("weakness"), severity_weight |-> 7, specificity_weight |-> 3],
    [key |-> C("pain"), severity_weight |-> 6, specificity_weight |-> 2],
    [key |-> C("joint pain"), severity_weight |-> 6, specificity_weight |-> 4],
    [key |-> C("muscle pain"), severity_weight |-> 5, specificity_weight |-> 3],
    [key |-> C("chest pain"), severity_weight |-> 8, specificity_weight |-> 4],
    [key |-> C("abdominal pain"), severity_weight |-> 7, specificity_weight |-> 3],
    [key |-> C("back pain"), severity_weight |-> 6, specificity_weight |-> 2],
    [key |-> C("dizziness"), severity_weight |-> 6, specificity_weight |-> 3],
    [key |-> C("vertigo"), severity_weight |-> 7, specificity_weight |-> 5],
    [key |-> C("numbness"), severity_weight |-> 7, specificity_weight |-> 5],
    [key |-> C("tingling"), severity_weight |-> 6, specificity_weight |-> 4],
    [key |-> C("vision problems"), severity_weight |-> 8, specificity_weight |-> 6],
    [key |-> C("blurred vision"), severity_weight |-> 7, specificity_weight |-> 5],
    [key |-> C("double vision"), severity_weight |-> 8, specificity_weight |-> 7],
    [key |-> C("memory problems"), severity_weight |-> 7, specificity_weight |-> 4],
    [key |-> C("confusion"), severity_weight |-> 8, specificity_weight |-> 5],
    [key |-> C("seizures"), severity_weight |-> 9, specificity_weight |-> 7],
    [key |-> C("weight loss"), severity_weight |-> 8, specificity_weight |-> 6],
    [key |-> C("night sweats"), severity_weight |-> 7, specificity_weight |-> 7],
    [key |-> C("swollen glands"), severity_weight |-> 6, specificity_weight |-> 5],
    [key |-> C("rash"), severity_weight |-> 6, specificity_weight |-> 4],
    [key |-> C("skin changes"), severity_weight |-> 5, specificity_weight |-> 4],
    [key |-> C("cough"), severity_weight |-> 5, specificity_weight |-> 2],
    [key |-> C("shortness of breath"), severity_weight |-> 8, specificity_weight |-> 4],
    [key |-> C("difficulty breathing"), severity_weight |-> 9, specificity_weight |-> 5],
    [key |-> C("nausea"), severity_weight |-> 5, specificity_weight |-> 2],
    [key |-> C("vomiting"), severity_weight |-> 6, specificity_weight |-> 3],
    [key |-> C("diarrhea"), severity_weight |-> 5, specificity_weight |-> 2],
    [key |-> C("constipation"), severity_weight |-> 4, specificity_weight |-> 2],
    [key |-> C("orthostatic dizziness"), severity_weight |-> 7, specificity_weight |-> 8],
    [key |-> C("migratory joint pain"), severity_weight |-> 7, specificity_weight |-> 7],
    [key |-> C("transient rash"), severity_weight |-> 6, specificity_weight |-> 6],
    [key |-> C("dry eyes"), severity_weight |-> 4, specificity_weight |-> 5],
    [key |-> C("dry mouth"), severity_weight |-> 4, specificity_weight |-> 5]
>>

\* names are written in ASCII (Sjogren, Guillain-Barre)
DISEASE_DATABASE == <<
    [name |-> "Systemic Lupus Erythematosus (SLE)",
     cluster |-> <<"autoimmune">>,
     symptom_relevance_map |-> <<<<C("fever"), 7>>, <<C("fatigue"), 8>>, <<C("joint pain"), 8>>, <<C("rash"), 7>>, <<C("chest pain"), 6>>, <<C("hair loss"), 6>>, <<C("mouth sores"), 5>>>>],
    [name |-> "Rheumatoid Arthritis",
     cluster |-> <<"autoimmune">>,
     symptom_relevance_map |-> <<<<C("joint pain"), 9>>, <<C("morning stiffness"), 8>>, <<C("fatigue"), 7>>, <<C("swollen joints"), 9>>, <<C("fever"), 4>>>>],
    [name |-> "Adult-Onset Still's Disease (AOSD)",
     cluster |-> <<"autoimmune">>,
     symptom_relevance_map |-> <<<<C("fever"), 9>>, <<C("joint pain"), 8>>, <<C("rash"), 7>>, <<C("sore throat"), 6>>, <<C("fatigue"), 8>>, <<C("muscle pain"), 7>>, <<C("migratory joint pain"), 8>>, <<C("transient rash"), 7>>>>],
    [name |-> "Sjogren's Syndrome",
     cluster |-> <<"autoimmune">>,
     symptom_relevance_map |-> <<<<C("dry eyes"), 9>>, <<C("dry mouth"), 9>>, <<C("fatigue"), 7>>, <<C("joint pain"), 6>>, <<C("numbness"), 5>>, <<C("vision problems"), 6>>>>],
    [name |-> "Systemic Vasculitis",
     cluster |-> <<"autoimmune">>,
     symptom_relevance_map |-> <<<<C("fever"), 7>>, <<C("fatigue"), 7>>, <<C("joint pain"), 6>>, <<C("rash"), 7>>, <<C("weight loss"), 6>>, <<C("night sweats"), 5>>, <<C("numbness"), 5>>>>],
    [name |-> "Sarcoidosis",
     cluster |-> <<"autoimmune">>,
     symptom_relevance_map |-> <<<<C("shortness of breath"), 7>>, <<C("cough"), 6>>, <<C("fatigue"), 7>>, <<C("swollen glands"), 6>>, <<C("rash"), 5>>, <<C("joint pain"), 5>>, <<C("vision problems"), 4>>>>],
    [name |-> "Multiple Sclerosis (MS)",
     cluster |-> <<"neurologic">>,
     symptom_relevance_map |-> <<<<C("numbness"), 8>>, <<C("tingling"), 8>>, <<C("vision problems"), 8>>, <<C("blurred vision"), 7>>, <<C("double vision"), 7>>, <<C("weakness"), 7>>, <<C("dizziness"), 6>>, <<C("fatigue"), 7>>, <<C("balance problems"), 7>>>>],
    [name |-> "Guillain-Barre Syndrome (GBS)",
     cluster |-> <<"neurologic", "infectious">>,
     symptom_relevance_map |-> <<<<C("weakness"), 9>>, <<C("numbness"), 8>>, <<C("tingling"), 8>>, <<C("difficulty breathing"), 7>>, <<C("pain"), 6>>>>],
    [name |-> "Adrenal Insufficiency",
     cluster |-> <<"endocrine">>,
     symptom_relevance_map |-> <<<<C("fatigue"), 8>>, <<C("weakness"), 7>>, <<C("weight loss"), 6>>, <<C("dizziness"), 7>>, <<C("orthostatic dizziness"), 8>>, <<C("nausea"), 5>>, <<C("abdominal pain"), 5>>>>],
    [name |-> "Hyperthyroidism",
     cluster |-> <<"endocrine">>,
     symptom_relevance_map |-> <<<<C("weight loss"), 7>>, <<C("fatigue"), 6>>, <<C("anxiety"), 6>>, <<C("sweating"), 6>>, <<C("heart palpitations"), 7>>>>],
    [name |-> "Hypothyroidism",
     cluster |-> <<"endocrine">>,
     symptom_relevance_map |-> <<<<C("fatigue"), 8>>, <<C("weight gain"), 7>>, <<C("weakness"), 6>>, <<C("depression"), 6>>, <<C("cold intolerance"), 6>>>>],
    [name |-> "Pheochromocytoma",
     cluster |-> <<"endocrine">>,
     symptom_relevance_map |-> <<<<C("heart palpitations"), 9>>, <<C("sweating"), 8>>, <<C("anxiety"), 7>>, <<C("tremor"), 7>>, <<C("headache"), 6>>, <<C("high blood pressure"), 8>>>>],
    [name |-> "Diabetes Mellitus Type 2",
     cluster |-> <<"endocrine", "metabolic/nutritional">>,
     symptom_relevance_map |-> <<<<C("weight loss"), 7>>, <<C("fatigue"), 7>>, <<C("frequent urination"), 9>>, <<C("excessive thirst"), 9>>, <<C("blurred vision"), 6>>>>],
    [name |-> "Hyperparathyroidism",
     cluster |-> <<"endocrine">>,
     symptom_relevance_map |-> <<<<C("fatigue"), 7>>, <<C("weakness"), 6>>, <<C("depression"), 5>>, <<C("bone pain"), 6>>, <<C("kidney stones"), 7>>>>],
    [name |-> "Graves' Disease",
     cluster |-> <<"endocrine">>,
     symptom_relevance_map |-> <<<<C("weight loss"), 8>>, <<C("heart palpitations"), 9>>, <<C("anxiety"), 8>>, <<C("tremor"), 8>>, <<C("heat intolerance"), 8>>, <<C("sweating"), 7>>, <<C("fatigue"), 6>>>>],
    [name |-> "POTS (Postural Orthostatic Tachycardia Syndrome)",
     cluster |-> <<"autonomic dysfunction">>,
     symptom_relevance_map |-> <<<<C("dizziness"), 8>>, <<C("orthostatic dizziness"), 9>>, <<C("fatigue"), 7>>, <<C("heart palpitations"), 7>>, <<C("numbness"), 5>>, <<C("brain fog"), 6>>>>],
    [name |-> "Autonomic Dysfunction",
     cluster |-> <<"autonomic dysfunction">>,
     symptom_relevance_map |-> <<<<C("orthostatic dizziness"), 8>>, <<C("dizziness"), 7>>, <<C("numbness"), 6>>, <<C("fatigue"), 6>>, <<C("heart palpitations"), 6>>>>],
    [name |-> "Lymphoma",
     cluster |-> <<"malignancy/hematologic">>,
     symptom_relevance_map |-> <<<<C("swollen glands"), 8>>, <<C("weight loss"), 8>>, <<C("night sweats"), 8>>, <<C("fever"), 7>>, <<C("fatigue"), 7>>, <<C("itching"), 5>>>>],
    [name |-> "Chronic EBV Infection",
     cluster |-> <<"infectious">>,
     symptom_relevance_map |-> <<<<C("fatigue"), 8>>, <<C("fever"), 6>>, <<C("swollen glands"), 7>>, <<C("sore throat"), 6>>, <<C("night sweats"), 5>>>>],
    [name |-> "Chronic CMV Infection",
     cluster |-> <<"infectious">>,
     symptom_relevance_map |-> <<<<C("fatigue"), 7>>, <<C("fever"), 6>>, <<C("swollen glands"), 6>>, <<C("night sweats"), 5>>>>],
    [name |-> "Tuberculosis (TB)",
     cluster |-> <<"infectious">>,
     symptom_relevance_map |-> <<<<C("cough"), 8>>, <<C("weight loss"), 7>>, <<C("night sweats"), 8>>, <<C("fever"), 7>>, <<C("fatigue"), 7>>, <<C("chest pain"), 6>>>>],
    [name |-> "Vitamin B12 Deficiency",
     cluster |-> <<"metabolic/nutritional">>,
     symptom_relevance_map |-> <<<<C("fatigue"), 7>>, <<C("weakness"), 6>>, <<C("numbness"), 7>>, <<C("tingling"), 7>>, <<C("memory problems"), 5>>>>],
    [name |-> "Iron Deficiency Anemia",
     cluster |-> <<"metabolic/nutritional">>,
     symptom_relevance_map |-> <<<<C("fatigue"), 8>>, <<C("weakness"), 7>>, <<C("shortness of breath"), 6>>, <<C("dizziness"), 6>>>>]
>>

\* ------------------------------------------------------------------------
\* JavaScript numbers of the scorers: exact fractions num/den, den > 0
\* ------------------------------------------------------------------------
Frac(n, d) == [num |-> n, den |-> d]

FracLess(x, y) ==
    IF x.den = y.den THEN x.num < y.num ELSE x.num * y.den < y.num * x.den

FracSub(x, y) ==
    IF x.den = y.den THEN Frac(x.num - y.num, x.den)
    ELSE Frac(x.num * y.den - y.num * x.den, x.den * y.den)

\* Math.round(x * 100) for x >= 0
RoundPercent(x) == (200 * x.num + x.den) \div (2 * x.den)

RECURSIVE SumSeq(_)
SumSeq(s) == IF s = <<>> THEN 0 ELSE s[1] + SumSeq(Tail(s))

Max(S) == CHOOSE m \in S : \A x \in S : x <= m
Min(S) == CHOOSE m \in S : \A x \in S : m <= x

\* ------------------------------------------------------------------------
\* The client scoring module (simple pipeline)
\* ------------------------------------------------------------------------
\* symptom.toLowerCase().trim()
Normalized(symptom) == Trim(ToLowerCase(symptom))

\* normalized.includes(key) || key.includes(normalized)
PartialMatch(normalized, key) == Includes(normalized, key) \/ Includes(key, normalized)

\* severity_weight * specificity_weight, in hundredths
getSymptomScore(symptom) ==
    LET normalized == Normalized(symptom)
        n == Len(SYMPTOM_WEIGHTS)
        exact == {i \in 1..n : SYMPTOM_WEIGHTS[i].key = normalized}
        partial == {i \in 1..n : PartialMatch(normalized, SYMPTOM_WEIGHTS[i].key)}
        hit == IF exact # {} THEN Min(exact) ELSE Min(partial)
    IN  IF exact = {} /\ partial = {} THEN 5 * 3
        ELSE SYMPTOM_WEIGHTS[hit].severity_weight * SYMPTOM_WEIGHTS[hit].specificity_weight

\* relevance factor of a symptom for a disease, in tenths
getDiseaseRelevance(disease, symptom) ==
    LET normalized == Normalized(symptom)
        map == disease.symptom_relevance_map
        exact == {i \in 1..Len(map) : map[i][1] = normalized}
        partial == {i \in 1..Len(map) : PartialMatch(normalized, map[i][1])}
    IN  IF exact # {} THEN map[Min(exact)][2]
        ELSE IF partial # {} THEN map[Min(partial)][2]
        ELSE 0

\* element of a string[] (Array.prototype.includes)
Contains(list, x) == \E i \in 1..Len(list) : list[i] = x

PriorityRule1(symptomsLower) ==
    /\ Includes(symptomsLower, C("weight loss"))
    /\ (Includes(symptomsLower, C("heat")) \/ Includes(symptomsLower, C("sweating")))
    /\ (Includes(symptomsLower, C("palpitation")) \/ Includes(symptomsLower, C("heart")))

PriorityRule2(symptomsLower) ==
    /\ (Includes(symptomsLower, C("frequent urination"))
           \/ Includes(symptomsLower, C("excessive thirst")))
    /\ Includes(symptomsLower, C("weight loss"))

PriorityRule3(symptomsLower) ==
    /\ (Includes(symptomsLower, C("numbness")) \/ Includes(symptomsLower, C("tingling"))
           \/ Includes(symptomsLower, C("weakness")))
    /\ (Includes(symptomsLower, C("dizziness")) \/ Includes(symptomsLower, C("orthostatic")))

\* the priority conditions named by the client rules, in push order
applyConditionFiltering(syms) ==
    LET symptomsLower == ToLowerCase(Join(syms, <<" ">>))
    IN  (IF PriorityRule1(symptomsLower)
         THEN <<"Hyperthyroidism", "Graves' Disease", "Pheochromocytoma">> ELSE <<>>)
        \o (IF PriorityRule2(symptomsLower)
            THEN <<"Diabetes Mellitus Type 2">> ELSE <<>>)
        \o (IF PriorityRule3(symptomsLower)
            THEN <<"Multiple Sclerosis (MS)",
                   "POTS (Postural Orthostatic Tachycardia Syndrome)",
                   "Autonomic Dysfunction">> ELSE <<>>)

\* a variant whose weight-loss rule pushes its flag without raising urgent
checkRedFlags_QuietWeightLoss(syms) ==
    LET text == ToLowerCase(Join(syms, <<" ">>))
        chest == /\ Includes(text, C("chest pain"))
                 /\ \/ Includes(text, C("syncope"))
                    \/ Includes(text, C("fainting"))
                    \/ (Includes(text, C("severe")) /\ Includes(text, C("breathing")))
        sweats == Includes(text, C("weight loss")) /\ Includes(text, C("night sweat"))
    IN  [flags |-> (IF chest THEN <<"Chest pain with syncope or severe breathing difficulty">>
                    ELSE <<>>)
                   \o (IF sweats THEN <<"Unintentional weight loss with night sweats">>
                       ELSE <<>>),
         urgent |-> chest]

checkRedFlags(syms) ==
    LET text == ToLowerCase(Join(syms, <<" ">>))
        chest == /\ Includes(text, C("chest pain"))
                 /\ \/ Includes(text, C("syncope"))
                    \/ Includes(text, C("fainting"))
                    \/ (Includes(text, C("severe")) /\ Includes(text, C("breathing")))
        sweats == Includes(text, C("weight loss")) /\ Includes(text, C("night sweat"))
    IN  [flags |-> (IF chest THEN <<"Chest pain with syncope or severe breathing difficulty">>
                    ELSE <<>>)
                   \o (IF sweats THEN <<"Unintentional weight loss with night sweats">>
                       ELSE <<>>),
         urgent |-> chest \/ sweats]

\* The symptom strings the scorers are applied to.  getSymptomScore and
\* getDiseaseRelevance depend on the symptom (and disease) only, so their
\* values for these strings are tabulated once and looked up by the loops.
SimpleVocabulary ==
    <<"weight loss", "heat intolerance", "heart racing", "headache", "cough",
      " Numbness", "dizziness", "double vision", "vision problems",
      "excessive thirst", "night sweats", "tingling">>

\* the tokens of the requests sent to advancedSymptomAnalysis
AdvancedVocabulary ==
    <<"weight loss", "heat intolerance", "heart racing", " Numbness", "dizziness",
      "night sweats", "heart palpitations", "tremor">>

\* the tokens of the reference scenarios: chest pain with fainting and
\* breathing difficulty, weight loss with palpitations and anxiety
ScenarioVocabulary ==
    <<"chest pain", "Fainting", "syncope", "severe cough", "difficulty breathing",
      "weight loss", "night sweats", "heart palpitations", "anxiety">>

KnownSymptoms ==
    LET vocabulary == SimpleVocabulary \o AdvancedVocabulary \o ScenarioVocabulary
    IN  {C(vocabulary[i]) : i \in 1..Len(vocabulary)}
            \cup {Trim(C(vocabulary[i])) : i \in 1..Len(vocabulary)}

SymptomScoreOf == [t \in KnownSymptoms |-> getSymptomScore(t)]

RelevanceOf ==
    [t \in KnownSymptoms |->
        [d \in 1..Len(DISEASE_DATABASE) |-> getDiseaseRelevance(DISEASE_DATABASE[d], t)]]

DiseaseIndex(name) == CHOOSE d \in 1..Len(DISEASE_DATABASE) : DISEASE_DATABASE[d].name = name

\* the relevance of each reported symptom for the disease, in tenths
Relevances(disease, syms) ==
    [i \in 1..Len(syms) |-> RelevanceOf[syms[i]][DiseaseIndex(disease.name)]] \o <<>>

\* matchedSymptomCount: the reported symptoms with relevance > 0
MatchedSymptomCount(disease, syms) ==
    LET relevance == Relevances(disease, syms)
    IN  Cardinality({i \in 1..Len(syms) : relevance[i] > 0})

\* symptomMatchRatio < percent / 100
RatioBelow(matched, total, percent) ==
    100 * matched < percent * (IF total > 1 THEN total ELSE 1)

SimpleMatchThreshold == 15

\* a variant that skips no disease
SimpleDiseaseScore_NoThreshold(disease, syms, priorityConditions) ==
    [skip |-> FALSE, name |-> disease.name, score |-> 0]

\* one pass of the forEach over the disease list: the entry set in the map
\* (score in ten-thousandths), or skipped
SimpleDiseaseScore(disease, syms, priorityConditions) ==
    LET relevance == Relevances(disease, syms)
        rawScore == SumSeq([i \in 1..Len(syms) |->
                               relevance[i] * SymptomScoreOf[syms[i]]])
        matched == Cardinality({i \in 1..Len(syms) : relevance[i] > 0})
        priority == Contains(priorityConditions, disease.name)
    IN  [skip |-> RatioBelow(matched, Len(syms), SimpleMatchThreshold) /\ ~priority,
         name |-> disease.name,
         score |-> IF priority THEN 13 * rawScore ELSE 10 * rawScore]

\* Map<string, number> as the sequence of its entries in insertion order
simpleCalculateDiseaseScores(syms, ans) ==
    LET priorityConditions == applyConditionFiltering(syms)
        entries == [d \in 1..Len(DISEASE_DATABASE) |->
                       SimpleDiseaseScore(DISEASE_DATABASE[d], syms, priorityConditions)] \o <<>>
        kept == SelectSeq(entries, LAMBDA e : ~e.skip)
    IN  [k \in 1..Len(kept) |-> [name |-> kept[k].name, score |-> kept[k].score]] \o <<>>

\* 0.001 in ten-thousandths
ScoreFloor == 10

\* a variant that divides by the sum of the scores
simpleNormalizeScores_BySum(scores) ==
    [k \in 1..Len(scores) |->
        [name |-> scores[k].name,
         score |-> Frac(scores[k].score,
                        Max({SumSeq([j \in 1..Len(scores) |-> scores[j].score]), ScoreFloor}))]]
    \o <<>>

simpleNormalizeScores(scores) ==
    LET maxScore == Max({scores[k].score : k \in 1..Len(scores)} \cup {ScoreFloor})
    IN  IF maxScore = 0 THEN [k \in 1..Len(scores) |->
                                  [name |-> scores[k].name, score |-> Frac(scores[k].score, 1)]]
        ELSE [k \in 1..Len(scores) |->
                  [name |-> scores[k].name, score |-> Frac(scores[k].score, maxScore)]] \o <<>>

\* a variant that shows a score of 0 instead of hiding the condition
clampDisplayScore_ShowsZero(score) ==
    <<[score |-> score, display |-> ToDigits(RoundPercent(score)) \o <<"%">>]>>

\* a variant that renders every score as a rounded percentage
clampDisplayScore_AlwaysPercent(score) ==
    IF score.num = 0 THEN <<>>
    ELSE LET clampedScore == IF FracLess(score, Frac(1, 20)) THEN Frac(1, 20) ELSE score
         IN  <<[score |-> clampedScore,
                display |-> ToDigits(RoundPercent(clampedScore)) \o <<"%">>]>>

\* null is the empty sequence, a result the one-element sequence
clampDisplayScore(score) ==
    IF score.num = 0 THEN <<>>
    ELSE LET clampedScore == IF FracLess(score, Frac(1, 20)) THEN Frac(1, 20) ELSE score
         IN  IF FracLess(clampedScore, Frac(1, 10))
             THEN <<[score |-> clampedScore, display |-> C("Low likelihood (<10%)")]>>
             ELSE <<[score |-> clampedScore,
                     display |-> ToDigits(RoundPercent(clampedScore)) \o <<"%">>]>>

\* conditions.slice(0, n)
Slice(s, n) == SubSeq(s, 1, IF n < Len(s) THEN n ELSE Len(s))

\* conditions[i]?.likelihood || 0
LikelihoodOrZero(conditions, i) ==
    IF i <= Len(conditions) THEN conditions[i].likelihood ELSE Frac(0, 1)

CloseCallLabel == "Close call - consider more information"

\* a variant that shows five conditions whatever the top score
getDisplayConditions_AlwaysFive(conditions) ==
    [conditions |-> Slice(conditions, 5), label |-> <<>>]

\* a variant without the close-call rule: N by the top score only, no label
getDisplayConditions_NoCloseCall(conditions) ==
    [conditions |-> Slice(conditions,
                          IF FracLess(LikelihoodOrZero(conditions, 1), Frac(2, 5)) THEN 3 ELSE 5),
     label |-> <<>>]

\* label is <<>> when undefined
getDisplayConditions(conditions) ==
    IF Len(conditions) = 0 THEN [conditions |-> <<>>, label |-> <<>>]
    ELSE LET topScore == LikelihoodOrZero(conditions, 1)
             secondScore == LikelihoodOrZero(conditions, 2)
             scoreDiff == FracSub(topScore, secondScore)
             closeCall == FracLess(scoreDiff, Frac(1, 10)) /\ Len(conditions) > 1
             n == IF closeCall THEN 3
                  ELSE IF FracLess(topScore, Frac(2, 5)) THEN 3 ELSE 5
         IN  [conditions |-> Slice(conditions, n),
              label |-> IF closeCall THEN <<CloseCallLabel>> ELSE <<>>]

\* a variant of the sort that places a condition before those of equal likelihood
RECURSIVE InsertByLikelihood_Unstable(_, _)
InsertByLikelihood_Unstable(sorted, c) ==
    IF sorted = <<>> THEN <<c>>
    ELSE IF ~FracLess(c.likelihood, sorted[Len(sorted)].likelihood)
    THEN InsertByLikelihood_Unstable(SubSeq(sorted, 1, Len(sorted) - 1), c)
             \o <<sorted[Len(sorted)]>>
    ELSE sorted \o <<c>>

\* conditions.sort((a, b) => b.likelihood - a.likelihood): stable, descending
RECURSIVE InsertByLikelihood(_, _)
InsertByLikelihood(sorted, c) ==
    IF sorted = <<>> THEN <<c>>
    ELSE IF FracLess(sorted[Len(sorted)].likelihood, c.likelihood)
    THEN InsertByLikelihood(SubSeq(sorted, 1, Len(sorted) - 1), c) \o <<sorted[Len(sorted)]>>
    ELSE sorted \o <<c>>

\* a variant of the sort in ascending order of likelihood
RECURSIVE SortByLikelihood_Ascending(_)
SortByLikelihood_Ascending(conditions) ==
    IF conditions = <<>> THEN <<>>
    ELSE LET low == CHOOSE i \in 1..Len(conditions) :
                        \A j \in 1..Len(conditions) :
                            ~FracLess(conditions[j].likelihood, conditions[i].likelihood)
         IN  <<conditions[low]>>
                 \o SortByLikelihood_Ascending(SubSeq(conditions, 1, low - 1)
                                                   \o SubSeq(conditions, low + 1, Len(conditions)))

RECURSIVE SortByLikelihood(_)
SortByLikelihood(conditions) ==
    IF conditions = <<>> THEN <<>>
    ELSE InsertByLikelihood(SortByLikelihood(SubSeq(conditions, 1, Len(conditions) - 1)),
                            conditions[Len(conditions)])

\* the ConditionResult pushed for one entry of the normalized map, if any
ConditionResults(entry) ==
    LET clamped == clampDisplayScore(entry.score)
    IN  IF clamped = <<>> THEN <<>>
        ELSE <<[condition |-> entry.name,
                likelihood |-> clamped[1].score,
                displayLikelihood |-> clamped[1].display]>>

RECURSIVE FlatMapResults(_)
FlatMapResults(entries) ==
    IF entries = <<>> THEN <<>>
    ELSE ConditionResults(entries[1]) \o FlatMapResults(Tail(entries))

scoreSymptoms(syms, ans) ==
    LET redFlags == checkRedFlags(syms)
        rawScores == simpleCalculateDiseaseScores(syms, ans)
        normalizedScores == simpleNormalizeScores(rawScores)
        conditions == SortByLikelihood(FlatMapResults(normalizedScores))
        displayed == getDisplayConditions(conditions)
    IN  [conditions |-> displayed.conditions,
         redFlags |-> redFlags,
         label |-> displayed.label,
         ranked |-> conditions,
         normalized |-> normalizedScores]

\* ------------------------------------------------------------------------
\* Specification of the simple pipeline
\* ------------------------------------------------------------------------
\* the k-th smallest element of a set of integers
Kth(S, k) == CHOOSE i \in S : Cardinality({j \in S : j < i}) = k - 1

\* the lists of at most n symptoms taken from the vocabulary in its order
SymptomLists(n) ==
    {[k \in 1..Cardinality(S) |-> SimpleVocabulary[Kth(S, k)]] :
        S \in {T \in SUBSET (1..Len(SimpleVocabulary)) : Cardinality(T) <= n}}

InitSimple ==
    /\ symptoms \in SymptomLists(MaxReported)
    /\ answers = <<>>
    /\ apiKey = FALSE
    /\ profileAge = ""
    /\ ran = {}
    /\ error = ""
    /\ IdleTime /\ IdleSimple /\ IdleDisplay /\ IdleAdvanced /\ IdleLlm /\ IdleProcess

CalculateDiseaseScores ==
    /\ ran = {}
    /\ diseaseScores' = simpleCalculateDiseaseScores(CharsOf(symptoms), CharsOf(answers))
    /\ ran' = ran \cup {"calculateDiseaseScores"}
    /\ UNCHANGED <<symptoms, answers, apiKey, profileAge, processVars, wizard, llm, error, tcClient, tcServer, scored,
                   displayVars, advanced>>

ScoreSymptoms ==
    /\ ran = {}
    /\ scored' = scoreSymptoms(CharsOf(symptoms), CharsOf(answers))
    /\ ran' = ran \cup {"scoreSymptoms"}
    /\ UNCHANGED <<symptoms, answers, apiKey, profileAge, processVars, wizard, llm, error, tcClient, tcServer, diseaseScores,
                   displayVars, advanced>>

NextSimple == CalculateDiseaseScores \/ ScoreSymptoms

SpecSimple == InitSimple /\ [][NextSimple]_vars

\* ------------------------------------------------------------------------
\* Properties of the simple pipeline (SpecSimple)
\* ------------------------------------------------------------------------
ScoredRan == "scoreSymptoms" \in ran
CalculatedRan == "calculateDiseaseScores" \in ran

\* 0.05 <= x <= 1.0
InDisplayRange(x) == ~FracLess(x, Frac(1, 20)) /\ ~FracLess(Frac(1, 1), x)

\* the disease entry of a name
DiseaseNamed(name) == DISEASE_DATABASE[DiseaseIndex(name)]

\* the name is a key of the Map
InMap(map, name) == \E k \in 1..Len(map) : map[k].name = name

\* C1: every condition scoreSymptoms produces, in the sorted array and in the
\* returned prefix of it, has a likelihood in [0.05, 1.0]; none is 0.
C1_LikelihoodInDisplayRange ==
    ScoredRan =>
        /\ \A k \in 1..Len(scored.ranked) :
               /\ InDisplayRange(scored.ranked[k].likelihood)
               /\ scored.ranked[k].likelihood.num # 0
        /\ \A k \in 1..Len(scored.conditions) :
               /\ InDisplayRange(scored.conditions[k].likelihood)
               /\ scored.conditions[k].likelihood.num # 0

\* a priority condition that matches no symptom scored 0 and is not listed
C1_ZeroScoreDropped ==
    /\ ScoredRan
    /\ Contains(applyConditionFiltering(CharsOf(symptoms)), "Pheochromocytoma")
    /\ MatchedSymptomCount(DiseaseNamed("Pheochromocytoma"), CharsOf(symptoms)) = 0
    /\ Len(scored.ranked) > 0
    /\ \A k \in 1..Len(scored.ranked) : scored.ranked[k].condition # "Pheochromocytoma"

\* a score below 5% of the top score has been raised to 0.05
C1_ClampedToFivePercent ==
    /\ ScoredRan
    /\ \E k \in 1..Len(scored.ranked) : scored.ranked[k].likelihood = Frac(1, 20)

\* the normalized scores scoreSymptoms clamps for display
NormalizedScores == scored.normalized

\* the text shown for a likelihood
DisplayText(likelihood) ==
    IF FracLess(likelihood, Frac(1, 10)) THEN C("Low likelihood (<10%)")
    ELSE ToDigits(RoundPercent(likelihood)) \o <<"%">>

\* the returned condition of a name
RankedOf(name) ==
    scored.ranked[CHOOSE k \in 1..Len(scored.ranked) : scored.ranked[k].condition = name]

\* C12: every condition returned by scoreSymptoms displays
\* 'Low likelihood (<10%)' exactly when its likelihood is below 0.10 and
\* round(likelihood * 100) followed by '%' otherwise; a normalized score in
\* (0, 0.05) is returned with likelihood 0.05 and the low-likelihood text.
C12_DisplayLikelihoodFormat ==
    ScoredRan =>
        /\ \A k \in 1..Len(scored.ranked) :
               scored.ranked[k].displayLikelihood = DisplayText(scored.ranked[k].likelihood)
        /\ \A k \in 1..Len(scored.conditions) :
               /\ scored.conditions[k].displayLikelihood
                      = DisplayText(scored.conditions[k].likelihood)
               /\ (scored.conditions[k].displayLikelihood = C("Low likelihood (<10%)"))
                      <=> FracLess(scored.conditions[k].likelihood, Frac(1, 10))
        /\ \A e \in {NormalizedScores[k] : k \in 1..Len(NormalizedScores)} :
               (e.score.num > 0 /\ FracLess(e.score, Frac(1, 20)))
                   => /\ RankedOf(e.name).likelihood = Frac(1, 20)
                      /\ RankedOf(e.name).displayLikelihood = C("Low likelihood (<10%)")

\* a condition whose normalized score lay strictly between 0 and 0.05 has been
\* built with likelihood 0.05 and the low-likelihood text, and the returned
\* list opens with a percentage
C12_FlooredShownLow ==
    /\ ScoredRan
    /\ \E e \in {NormalizedScores[k] : k \in 1..Len(NormalizedScores)} :
           /\ e.score.num > 0
           /\ FracLess(e.score, Frac(1, 20))
           /\ RankedOf(e.name).likelihood = Frac(1, 20)
           /\ RankedOf(e.name).displayLikelihood = C("Low likelihood (<10%)")
    /\ scored.conditions[1].displayLikelihood = C("100%")

\* C28 (amended): a non-empty list returned by scoreSymptoms opens with likelihood
\* exactly 1.0, so the display rule never takes its 'top score < 0.40'
\* branch: a list cut to 3 conditions carries the close-call label, and a
\* list without the label holds the first 5 of the ranking.
C28_TopIsOne ==
    (ScoredRan /\ scored.conditions # <<>>) =>
        /\ scored.conditions[1].likelihood.num = scored.conditions[1].likelihood.den
        /\ ~FracLess(scored.ranked[1].likelihood, Frac(2, 5))
        /\ (Len(scored.ranked) > 3 /\ Len(scored.conditions) = 3)
               => scored.label = <<CloseCallLabel>>
        /\ scored.label = <<>> => scored.conditions = Slice(scored.ranked, 5)

\* four or more conditions were ranked, the top one with likelihood 1.0, and
\* the close-call rule cut the list to 3
C28_CutByCloseCall ==
    /\ ScoredRan
    /\ Len(scored.ranked) > 3
    /\ Len(scored.conditions) = 3
    /\ scored.conditions[1].likelihood.num = scored.conditions[1].likelihood.den
    /\ scored.label = <<CloseCallLabel>>

\* C28 (as stated): a non-empty list returned by scoreSymptoms opens with
\* likelihood exactly 1.0, and a returned list has 3 conditions only with the
\* close-call label.
C28_ThreeOnlyByCloseCall ==
    ScoredRan =>
        /\ scored.conditions # <<>>
               => scored.conditions[1].likelihood.num = scored.conditions[1].likelihood.den
        /\ Len(scored.conditions) = 3 => scored.label = <<CloseCallLabel>>

\* two likelihoods are the same number
SameLikelihood(a, b) == ~FracLess(a, b) /\ ~FracLess(b, a)

\* the list is in non-increasing order of likelihood, equal likelihoods in the
\* order of the disease table
StablyRanked(conditions) ==
    \A i, j \in 1..Len(conditions) :
        i < j =>
            /\ ~FracLess(conditions[i].likelihood, conditions[j].likelihood)
            /\ SameLikelihood(conditions[i].likelihood, conditions[j].likelihood)
                   => DiseaseIndex(conditions[i].condition)
                          < DiseaseIndex(conditions[j].condition)

\* C13: the conditions returned by scoreSymptoms are in non-increasing order
\* of likelihood, and two conditions of equal likelihood appear in the order
\* in which the disease table declares them.
C13_SortedStableByTableOrder ==
    ScoredRan => StablyRanked(scored.conditions) /\ StablyRanked(scored.ranked)

\* two returned conditions tie below a strictly higher one
C13_TieReturned ==
    /\ ScoredRan
    /\ \E i, j \in 1..Len(scored.conditions) :
           /\ 1 < i /\ i < j
           /\ SameLikelihood(scored.conditions[i].likelihood, scored.conditions[j].likelihood)
           /\ FracLess(scored.conditions[i].likelihood, scored.conditions[1].likelihood)

\* ------------------------------------------------------------------------
\* Specification of the simple pipeline on the scenario vocabulary
\* ------------------------------------------------------------------------
ScenarioLists(n) ==
    {[k \in 1..Cardinality(S) |-> ScenarioVocabulary[Kth(S, k)]] :
        S \in {T \in SUBSET (1..Len(ScenarioVocabulary)) : Cardinality(T) <= n}}

InitScenario ==
    /\ symptoms \in ScenarioLists(MaxScenario)
    /\ answers = <<>>
    /\ apiKey = FALSE
    /\ profileAge = ""
    /\ ran = {}
    /\ error = ""
    /\ IdleTime /\ IdleSimple /\ IdleDisplay /\ IdleAdvanced /\ IdleLlm /\ IdleProcess

SpecScenario == InitScenario /\ [][NextSimple]_vars

\* a reported symptom contains the words, whatever their case
Reported(words) ==
    \E k \in 1..Len(symptoms) : Includes(ToLowerCase(C(symptoms[k])), C(words))

\* the combinations the red-flag check looks for
ChestPainCombination ==
    /\ Reported("chest pain")
    /\ \/ Reported("fainting")
       \/ Reported("syncope")
       \/ (Reported("severe") /\ Reported("breathing"))
WeightLossCombination == Reported("weight loss") /\ Reported("night sweat")

\* C17: when the reported symptoms contain 'chest pain' together with
\* 'fainting' or 'syncope' (or with both 'severe' and 'breathing'), or contain
\* 'weight loss' together with 'night sweat', the red-flag check of
\* scoreSymptoms returns at least one flag and urgent = true; and urgent is
\* true exactly when the flag list is non-empty.
C17_RedFlagsUrgent ==
    ScoredRan =>
        /\ (ChestPainCombination \/ WeightLossCombination)
               => Len(scored.redFlags.flags) >= 1 /\ scored.redFlags.urgent
        /\ scored.redFlags.urgent <=> scored.redFlags.flags # <<>>

\* chest pain, fainting and difficulty breathing raise the chest-pain flag
C17_ScenarioA ==
    /\ ScoredRan
    /\ symptoms = <<"chest pain", "Fainting", "difficulty breathing">>
    /\ scored.redFlags
           = [flags |-> <<"Chest pain with syncope or severe breathing difficulty">>,
              urgent |-> TRUE]

\* the returned condition is filed under the endocrine cluster
Endocrine(name) == Contains(DiseaseNamed(name).cluster, "endocrine")

ThyroidConditions == {"Hyperthyroidism", "Graves' Disease"}

\* C18: for the symptoms weight loss, heart palpitations, anxiety with no
\* answers, scoreSymptoms returns a non-empty list that contains
\* Hyperthyroidism or Graves' Disease, each of them ranked above every
\* returned condition without an endocrine cluster, and no returned condition
\* has likelihood 0.
C18_ScenarioB ==
    (ScoredRan /\ symptoms = <<"weight loss", "heart palpitations", "anxiety">>)
        => /\ scored.conditions # <<>>
           /\ \E k \in 1..Len(scored.conditions) :
                  scored.conditions[k].condition \in ThyroidConditions
           /\ \A i, j \in 1..Len(scored.conditions) :
                  (/\ scored.conditions[i].condition \in ThyroidConditions
                   /\ ~Endocrine(scored.conditions[j].condition))
                      => i < j
           /\ \A k \in 1..Len(scored.conditions) : scored.conditions[k].likelihood.num # 0

\* scenario B has been scored: Graves' Disease leads, a condition of another
\* cluster is returned below the thyroid conditions
C18_ScenarioBScored ==
    /\ ScoredRan
    /\ symptoms = <<"weight loss", "heart palpitations", "anxiety">>
    /\ scored.conditions[1].condition = "Graves' Disease"
    /\ scored.conditions[1].displayLikelihood = C("100%")
    /\ \E k \in 1..Len(scored.conditions) : ~Endocrine(scored.conditions[k].condition)

\* C8: a condition is in the Map returned by calculateDiseaseScores only if
\* its matched-symptom ratio is >= 0.15, also when it is a priority condition.
\* (The code keeps a priority condition whatever its ratio.)
C8_MapOnlyAboveThreshold ==
    CalculatedRan =>
        \A k \in 1..Len(diseaseScores) :
            ~RatioBelow(MatchedSymptomCount(DiseaseNamed(diseaseScores[k].name),
                                            CharsOf(symptoms)),
                        Len(symptoms), SimpleMatchThreshold)

\* C8 (amended): a condition is in the Map returned by calculateDiseaseScores
\* exactly when its matched-symptom ratio is >= 0.15 or the priority rules
\* name it; a condition below the threshold that no rule names is excluded.
C8_MapAboveThresholdOrPriority ==
    CalculatedRan =>
        \A d \in 1..Len(DISEASE_DATABASE) :
            InMap(diseaseScores, DISEASE_DATABASE[d].name)
                <=> \/ ~RatioBelow(MatchedSymptomCount(DISEASE_DATABASE[d], CharsOf(symptoms)),
                                   Len(symptoms), SimpleMatchThreshold)
                    \/ Contains(applyConditionFiltering(CharsOf(symptoms)),
                                DISEASE_DATABASE[d].name)

\* a condition matching one symptom of seven, named by no rule, is not in the
\* Map, while a priority condition below the threshold is
C8_BelowThresholdExcluded ==
    /\ CalculatedRan
    /\ \E d \in 1..Len(DISEASE_DATABASE) :
           LET matched == MatchedSymptomCount(DISEASE_DATABASE[d], CharsOf(symptoms))
           IN  /\ matched > 0
               /\ RatioBelow(matched, Len(symptoms), SimpleMatchThreshold)
               /\ ~InMap(diseaseScores, DISEASE_DATABASE[d].name)
    /\ \E k \in 1..Len(diseaseScores) :
           RatioBelow(MatchedSymptomCount(DiseaseNamed(diseaseScores[k].name),
                                          CharsOf(symptoms)),
                      Len(symptoms), SimpleMatchThreshold)

\* ------------------------------------------------------------------------
\* Specification of getDisplayConditions as a function of its argument
\* ------------------------------------------------------------------------
\* likelihoods of the listed conditions, in hundredths
LikelihoodLevels == {5, 30, 39, 40, 50, 100}

\* the ConditionResult at rank k with the likelihood h / 100
Listed(k, h) == ConditionResults([name |-> DISEASE_DATABASE[k].name, score |-> Frac(h, 100)])[1]

\* the lists of at most n conditions sorted by descending likelihood
SortedLists(n) ==
    {[k \in 1..Len(q) |-> Listed(k, q[k])] :
        q \in {r \in SeqsUpTo(LikelihoodLevels, n) :
                  \A i \in 1..Len(r) : \A j \in 1..Len(r) : i < j => r[i] >= r[j]}}

InitDisplay ==
    /\ symptoms = <<>>
    /\ answers = <<>>
    /\ apiKey = FALSE
    /\ profileAge = ""
    /\ ran = {}
    /\ error = ""
    /\ listed \in SortedLists(MaxListed)
    /\ shown = NoDisplay
    /\ IdleTime /\ IdleSimple /\ IdleAdvanced /\ IdleLlm /\ IdleProcess

GetDisplayConditions ==
    /\ ran = {}
    /\ shown' = getDisplayConditions(listed)
    /\ ran' = ran \cup {"getDisplayConditions"}
    /\ UNCHANGED <<symptoms, answers, apiKey, profileAge, processVars, wizard, llm, error, tcClient, tcServer, simpleVars,
                   listed, advanced>>

NextDisplay == GetDisplayConditions

SpecDisplay == InitDisplay /\ [][NextDisplay]_vars

DisplayRan == "getDisplayConditions" \in ran

IsPrefix(p, s) == Len(p) <= Len(s) /\ \A i \in 1..Len(p) : p[i] = s[i]

\* C10: getDisplayConditions returns a prefix of the sorted list; at most 3
\* entries when the top likelihood is < 0.40; at most 5 when it is >= 0.40 and
\* rank 1 leads rank 2 by >= 0.10; and never an empty list for a non-empty one.
C10_DynamicTopN ==
    DisplayRan =>
        LET topScore == LikelihoodOrZero(listed, 1)
            gap == FracSub(topScore, LikelihoodOrZero(listed, 2))
        IN  /\ IsPrefix(shown.conditions, listed)
            /\ FracLess(topScore, Frac(2, 5)) => Len(shown.conditions) <= 3
            /\ (~FracLess(topScore, Frac(2, 5)) /\ ~FracLess(gap, Frac(1, 10)))
                   => Len(shown.conditions) <= 5
            /\ Len(listed) > 0 => Len(shown.conditions) > 0

\* more than three conditions listed under a top likelihood below 0.40: three shown
C10_LowTopShowsThree ==
    /\ DisplayRan
    /\ Len(listed) > 3
    /\ FracLess(listed[1].likelihood, Frac(2, 5))
    /\ Len(shown.conditions) = 3

\* rank 1 leads rank 2 by less than 0.10, at least two conditions being ranked
CloseCall(conditions) ==
    /\ Len(conditions) >= 2
    /\ FracLess(FracSub(conditions[1].likelihood, conditions[2].likelihood), Frac(1, 10))

NameIncludes(diseaseName, part) == Includes(C(diseaseName), C(part))

\* list.some(d => diseaseName.includes(d))
SomeIncluded(diseaseName, list) == \E i \in 1..Len(list) : NameIncludes(diseaseName, list[i])

\* the relevance factor by disease name, 0 for a name that is not in the table
getDiseaseRelevanceFactor(diseaseName, symptom) ==
    IF \A d \in 1..Len(DISEASE_DATABASE) : DISEASE_DATABASE[d].name # diseaseName THEN 0
    ELSE RelevanceOf[symptom][DiseaseIndex(diseaseName)]

\* SYMPTOM_SYSTEM_MAP: for a key written twice the later value holds
SYMPTOM_SYSTEM_MAP == <<
    <<"weight loss", <<"endocrine/metabolic">> >>,
    <<"weight gain", <<"endocrine/metabolic">> >>,
    <<"heat intolerance", <<"endocrine/metabolic">> >>,
    <<"cold intolerance", <<"endocrine/metabolic">> >>,
    <<"sweating", <<"endocrine/metabolic">> >>,
    <<"excessive thirst", <<"endocrine/metabolic">> >>,
    <<"frequent urination", <<"endocrine/metabolic">> >>,
    <<"tremor", <<"endocrine/metabolic", "neurological">> >>,
    <<"heart palpitations", <<"autonomic", "cardiac">> >>,
    <<"chest pain", <<"cardiac">> >>,
    <<"shortness of breath", <<"respiratory", "cardiac">> >>,
    <<"difficulty breathing", <<"cardiac", "respiratory">> >>,
    <<"numbness", <<"neurological">> >>,
    <<"tingling", <<"neurological">> >>,
    <<"weakness", <<"hematologic", "neurological">> >>,
    <<"vision problems", <<"neurological">> >>,
    <<"blurred vision", <<"neurological">> >>,
    <<"double vision", <<"neurological">> >>,
    <<"memory problems", <<"neurological">> >>,
    <<"confusion", <<"neurological">> >>,
    <<"seizures", <<"neurological">> >>,
    <<"balance problems", <<"neurological">> >>,
    <<"orthostatic dizziness", <<"autonomic">> >>,
    <<"dizziness", <<"autonomic", "neurological">> >>,
    <<"brain fog", <<"autonomic">> >>,
    <<"nausea", <<"gastrointestinal">> >>,
    <<"vomiting", <<"gastrointestinal">> >>,
    <<"diarrhea", <<"gastrointestinal">> >>,
    <<"constipation", <<"gastrointestinal">> >>,
    <<"abdominal pain", <<"gastrointestinal">> >>,
    <<"fatigue", <<"autoimmune", "hematologic">> >>,
    <<"swollen glands", <<"hematologic", "infectious">> >>,
    <<"joint pain", <<"autoimmune">> >>,
    <<"rash", <<"autoimmune">> >>,
    <<"fever", <<"autoimmune", "infectious">> >>,
    <<"cough", <<"respiratory">> >>
>>

\* SYMPTOM_SYSTEM_MAP[normalized] || ['endocrine/metabolic']
SystemsOfSymptom(symptom) ==
    LET normalized == Normalized(symptom)
        hits == {i \in 1..Len(SYMPTOM_SYSTEM_MAP) : C(SYMPTOM_SYSTEM_MAP[i][1]) = normalized}
    IN  IF hits = {} THEN <<"endocrine/metabolic">>
        ELSE SYMPTOM_SYSTEM_MAP[Min(hits)][2]

\* the keys of systemMap after the symptoms seen so far, in insertion order
RECURSIVE AppendNew(_, _)
AppendNew(list, more) ==
    IF more = <<>> THEN list
    ELSE AppendNew(IF Contains(list, more[1]) THEN list ELSE Append(list, more[1]),
                   Tail(more))

RECURSIVE InvolvedSystems(_)
InvolvedSystems(syms) ==
    IF syms = <<>> THEN <<>>
    ELSE AppendNew(InvolvedSystems(SubSeq(syms, 1, Len(syms) - 1)),
                   SystemsOfSymptom(syms[Len(syms)]))

\* every entry has score symptoms.length / symptoms.length = 1, so the stable
\* sort keeps the insertion order
analyzeSystemInvolvement(syms) ==
    LET systems == InvolvedSystems(syms)
    IN  [k \in 1..Len(systems) |->
            [system |-> systems[k],
             symptoms |-> SelectSeq(syms, LAMBDA s : Contains(SystemsOfSymptom(s), systems[k])),
             score |-> 1]] \o <<>>

conditionSystemMap == <<
    <<"Hyperthyroidism", <<"endocrine/metabolic", "cardiac", "autonomic">> >>,
    <<"Graves' Disease", <<"endocrine/metabolic", "cardiac", "autonomic">> >>,
    <<"Pheochromocytoma", <<"endocrine/metabolic", "cardiac", "autonomic">> >>,
    <<"Diabetes Mellitus", <<"endocrine/metabolic", "cardiac">> >>,
    <<"POTS", <<"autonomic", "cardiac", "neurological">> >>,
    <<"Multiple Sclerosis", <<"neurological", "autonomic">> >>,
    <<"Lupus", <<"autoimmune", "cardiac", "hematologic">> >>,
    <<"Lymphoma", <<"hematologic", "autoimmune">> >>
>>

getConditionSystems(conditionName) ==
    LET hits == {i \in 1..Len(conditionSystemMap) :
                    NameIncludes(conditionName, conditionSystemMap[i][1])}
    IN  IF hits = {} THEN <<"endocrine/metabolic">>
        ELSE conditionSystemMap[Min(hits)][2]

\* overlap / totalSystems as the pair <<overlap, totalSystems>>
calculateMultiSystemOverlap(conditionSystems, involvedSystems) ==
    LET overlap == Cardinality({i \in 1..Len(conditionSystems) :
                       \E k \in 1..Len(involvedSystems) :
                           involvedSystems[k].system = conditionSystems[i]})
        totalSystems == IF Len(conditionSystems) > Len(involvedSystems)
                        THEN Len(conditionSystems) ELSE Len(involvedSystems)
    IN  <<overlap, totalSystems>>

\* ---- time-course logic (multipliers in thousandths) ----
acuteDiseases == <<"Guillain-Barre Syndrome (GBS)", "Acute Infection">>

chronicDiseases == <<
    "Systemic Lupus Erythematosus (SLE)", "Rheumatoid Arthritis",
    "Adult-Onset Still's Disease (AOSD)", "Sjogren's Syndrome", "Systemic Vasculitis",
    "Sarcoidosis", "Multiple Sclerosis (MS)", "Chronic EBV Infection",
    "Chronic CMV Infection", "Tuberculosis (TB)", "Lymphoma">>

autoimmuneDiseases == <<
    "Systemic Lupus Erythematosus (SLE)", "Rheumatoid Arthritis",
    "Adult-Onset Still's Disease (AOSD)", "Sjogren's Syndrome", "Systemic Vasculitis",
    "Sarcoidosis", "Multiple Sclerosis (MS)">>

neurologicDiseases == <<"Multiple Sclerosis (MS)", "Guillain-Barre Syndrome (GBS)">>

\* multiplier *= tenths / 10
Times(multiplier, tenths) == (multiplier * tenths) \div 10

\* a factor in tenths when the condition holds, the neutral factor otherwise
FactorIf(condition, tenths) == IF condition THEN tenths ELSE 10

TimeCourseMultiplier(timeCourse, diseaseName) ==
    LET duration == IF Truthy(timeCourse.duration_days) THEN timeCourse.duration_days ELSE 0
        pattern == timeCourse.pattern
        m1 == Times(1000, FactorIf(duration > 14 /\ SomeIncluded(diseaseName, acuteDiseases), 5))
        m2 == Times(m1, FactorIf(duration > 14 /\ SomeIncluded(diseaseName, chronicDiseases),
                                 13))
        m3 == Times(m2, FactorIf(duration > 0 /\ duration <= 14
                                     /\ SomeIncluded(diseaseName, acuteDiseases), 12))
        m4 == Times(m3, FactorIf(pattern \in {"relapsing", "waxing", "waning"}
                                     /\ SomeIncluded(diseaseName, autoimmuneDiseases), 14))
    IN  Times(m4, FactorIf(pattern = "progressive"
                               /\ SomeIncluded(diseaseName, neurologicDiseases), 13))

\* the adjustments for the one-name list [diseaseName]
Adjustments(diseaseName, multiplier) ==
    IF multiplier # 1000
    THEN <<[diseaseName |-> diseaseName, multiplier |-> multiplier]>>
    ELSE <<>>

applyTimeCourseLogic(timeCourse, diseaseName) ==
    Adjustments(diseaseName, TimeCourseMultiplier(timeCourse, diseaseName))

\* ---- pattern detection (multipliers in tenths) ----
Has(text, literal) == Includes(text, C(literal))

detectPatterns(symptomsText, ans) ==
    LET text == ServerText(symptomsText, ans)
        hasMigratoryJointPain ==
            \/ Has(text, "migratory joint")
            \/ (Has(text, "joint pain")
                  /\ (Has(text, "moving") \/ Has(text, "different joints")))
        hasTransientRash ==
            \/ Has(text, "transient rash")
            \/ (Has(text, "rash")
                  /\ (Has(text, "comes and goes") \/ Has(text, "appears and disappears")))
        hasNeuroSymptoms ==
            \/ Has(text, "numbness") \/ Has(text, "tingling")
            \/ Has(text, "weakness") \/ Has(text, "balance problem")
        hasVisualSymptoms ==
            \/ Has(text, "vision problem") \/ Has(text, "blurred vision")
            \/ Has(text, "double vision") \/ Has(text, "visual change")
        hasWeightLoss == Has(text, "weight loss") \/ Has(text, "lost weight")
        hasNightSweats == Has(text, "night sweat") \/ Has(text, "sweating at night")
        hasOrthostaticDizziness ==
            Has(text, "orthostatic") \/ (Has(text, "dizziness") /\ Has(text, "standing"))
        hasNumbness == Has(text, "numbness") \/ Has(text, "tingling")
    IN  (IF hasMigratoryJointPain /\ hasTransientRash
         THEN <<[pattern |-> "Migratory Joint Pain + Transient Rash", detected |-> TRUE,
                 diseases |-> <<"Systemic Lupus Erythematosus (SLE)", "Systemic Vasculitis",
                                "Adult-Onset Still's Disease (AOSD)">>,
                 multiplier |-> 15]>>
         ELSE <<>>)
        \o (IF hasNeuroSymptoms /\ hasVisualSymptoms
            THEN <<[pattern |-> "Neurological + Visual Symptoms", detected |-> TRUE,
                    diseases |-> <<"Multiple Sclerosis (MS)", "Sjogren's Syndrome">>,
                    multiplier |-> 14]>>
            ELSE <<>>)
        \o (IF hasWeightLoss /\ hasNightSweats
            THEN <<[pattern |-> "Weight Loss + Night Sweats", detected |-> TRUE,
                    diseases |-> <<"Lymphoma", "Chronic EBV Infection",
                                   "Chronic CMV Infection", "Tuberculosis (TB)">>,
                    multiplier |-> 16]>>
            ELSE <<>>)
        \o (IF hasOrthostaticDizziness /\ hasNumbness
            THEN <<[pattern |-> "Orthostatic Dizziness + Numbness", detected |-> TRUE,
                    diseases |-> <<"POTS (Postural Orthostatic Tachycardia Syndrome)",
                                   "Autonomic Dysfunction", "Adrenal Insufficiency">>,
                    multiplier |-> 15]>>
            ELSE <<>>)

\* the product of the multipliers of the patterns naming the disease, in millionths
RECURSIVE PatternProduct(_, _, _)
PatternProduct(diseaseName, patterns, k) ==
    IF k > Len(patterns) THEN 1000000
    ELSE LET rest == PatternProduct(diseaseName, patterns, k + 1)
         IN  IF patterns[k].detected /\ SomeIncluded(diseaseName, patterns[k].diseases)
             THEN Times(rest, patterns[k].multiplier)
             ELSE rest

applyPatternMultipliers(diseaseName, patterns) == PatternProduct(diseaseName, patterns, 1)

\* ---- red-flag detection (multipliers in tenths, weights in grams) ----
WeightUnits == <<"kg", "kilograms", "kilogram", "pounds", "pound", "lbs">>

\* /(?:lost|losing)\s+(\d+)\s*(?:kg|kilograms?|pounds?|lbs)/ matches at i;
\* the value is the index of the first digit, 0 when there is no match
LostAmountAt(t, i) ==
    LET w == IF StartsAt(t, i, C("lost")) THEN 4
             ELSE IF StartsAt(t, i, C("losing")) THEN 6 ELSE 0
        d == SpacesEnd(t, i + w)
    IN  IF w > 0 /\ d > i + w /\ NumberUnitAt(t, d, WeightUnits) THEN d ELSE 0

\* /weight\s+loss\s+of\s+(\d+)\s*(?:kg|kilograms?|pounds?|lbs)/ matches at i
WeightLossOfAt(t, i) ==
    LET a == i + 6
        b == SpacesEnd(t, a)
        c == b + 4
        e == SpacesEnd(t, c)
        f == e + 2
        d == SpacesEnd(t, f)
    IN  IF /\ StartsAt(t, i, C("weight")) /\ b > a
           /\ StartsAt(t, b, C("loss")) /\ e > c
           /\ StartsAt(t, e, C("of")) /\ d > f
           /\ NumberUnitAt(t, d, WeightUnits)
        THEN d ELSE 0

\* /(\d+)\s*(?:kg|kilograms?|pounds?|lbs)\s+(?:weight\s+)?loss/ matches at i
AmountLossAt(t, i) ==
    IF /\ i <= Len(t) /\ IsDigit(t[i])
       /\ \E u \in 1..Len(WeightUnits) :
             LET a == SpacesEnd(t, DigitsEnd(t, i))
                 b == a + Len(C(WeightUnits[u]))
                 c == SpacesEnd(t, b)
                 e == c + 6
             IN  /\ StartsAt(t, a, C(WeightUnits[u]))
                 /\ c > b
                 /\ \/ StartsAt(t, c, C("loss"))
                    \/ (StartsAt(t, c, C("weight")) /\ SpacesEnd(t, e) > e
                           /\ StartsAt(t, SpacesEnd(t, e), C("loss")))
    THEN i ELSE 0

\* match[1] of the first of the three patterns that matches, as a number;
\* Undefined when none does
WeightLossValue(t) ==
    LET first(hits) == ParseInt(SubSeq(t, Min(hits), DigitsEnd(t, Min(hits)) - 1))
        lost == {LostAmountAt(t, i) : i \in {j \in 1..Len(t) : LostAmountAt(t, j) > 0}}
        lossOf == {WeightLossOfAt(t, i) : i \in {j \in 1..Len(t) : WeightLossOfAt(t, j) > 0}}
        amount == {AmountLossAt(t, i) : i \in {j \in 1..Len(t) : AmountLossAt(t, j) > 0}}
    IN  IF lost # {} THEN first(lost)
        ELSE IF lossOf # {} THEN first(lossOf)
        ELSE IF amount # {} THEN first(amount)
        ELSE Undefined

\* weightLossAmount in grams (a pound is 0.453592 kg, rounded down to the gram)
StatedWeightLoss(text, value) ==
    IF value = Undefined THEN 0
    ELSE IF Has(text, "pound") \/ Has(text, "lb") THEN (value * 453592) \div 1000
    ELSE value * 1000

AssumedWeightLoss(text, stated) ==
    IF stated = 0 /\ (Has(text, "significant weight loss")
                         \/ Has(text, "a lot of weight")
                         \/ Has(text, "unintentional weight loss"))
    THEN 3000
    ELSE stated

WeightLossAmount(text) == AssumedWeightLoss(text, StatedWeightLoss(text, WeightLossValue(text)))

\* severities in tenths; Math.min(weightLossAmount / 5, 1.0) rounded down
RedFlagsOf(weightLossAmount, nightSweats, neuroVisual, orthostatic, orthostaticNeuro) ==
    [redFlags |->
        (IF weightLossAmount >= 2000
         THEN <<[name |-> "Significant Weight Loss", detected |-> TRUE,
                 severity |-> IF weightLossAmount >= 5000 THEN 10
                              ELSE weightLossAmount \div 500]>>
         ELSE <<>>)
        \o (IF nightSweats
            THEN <<[name |-> "Night Sweats", detected |-> TRUE, severity |-> 8]>>
            ELSE <<>>)
        \o (IF neuroVisual
            THEN <<[name |-> "Neurological + Visual Symptoms", detected |-> TRUE,
                    severity |-> 9]>>
            ELSE <<>>)
        \o (IF orthostatic
            THEN <<[name |-> "Orthostatic Dizziness", detected |-> TRUE, severity |-> 7]>>
            ELSE <<>>),
     multipliers |->
        [malignancy_multiplier |->
             10 + (IF weightLossAmount >= 2000 THEN 15 ELSE 0)
                + (IF nightSweats THEN 14 ELSE 0),
         chronic_infection_multiplier |-> 10 + (IF nightSweats THEN 14 ELSE 0),
         MS_multiplier |-> 10 + (IF neuroVisual THEN 16 ELSE 0),
         dysautonomia_multiplier |->
             10 + (IF orthostatic THEN 14 ELSE 0) + (IF orthostaticNeuro THEN 3 ELSE 0),
         adrenal_insufficiency_multiplier |->
             10 + (IF orthostatic THEN 13 ELSE 0) + (IF orthostaticNeuro THEN 2 ELSE 0),
         autoimmune_multiplier |-> 10]]

HasNeuroSymptoms(text) ==
    \/ Has(text, "numbness") \/ Has(text, "tingling")
    \/ Has(text, "weakness") \/ Has(text, "balance problem")

HasVisualChanges(text) ==
    \/ Has(text, "vision") \/ Has(text, "blurred")
    \/ Has(text, "double vision") \/ Has(text, "visual")

HasOrthostatic(text) ==
    \/ Has(text, "orthostatic")
    \/ (Has(text, "dizziness") /\ Has(text, "standing"))
    \/ (Has(text, "dizzy") /\ (Has(text, "stand") \/ Has(text, "up")))

HasNightSweats(text) ==
    \/ Has(text, "night sweat") \/ Has(text, "sweating at night")
    \/ Has(text, "drenching sweat") \/ Has(text, "soaked at night")

RedFlagsInText(text) ==
    RedFlagsOf(IF Has(text, "weight loss") \/ Has(text, "lost weight")
               THEN WeightLossAmount(text) ELSE 0,
               HasNightSweats(text),
               HasNeuroSymptoms(text) /\ HasVisualChanges(text),
               HasOrthostatic(text),
               HasOrthostatic(text) /\ HasNeuroSymptoms(text))

detectRedFlags(symptomsText, ans) == RedFlagsInText(ServerText(symptomsText, ans))

\* 'Sj√∂gren' in the source: the bytes of "ö" read in another encoding, a
\* string that occurs in no disease name
MisencodedSjogren == "Sj[V][d]gren"

\* the product of the multipliers that apply to the name, in millionths
applyRedFlagMultipliers(diseaseName, multipliers) ==
    LET in(part) == NameIncludes(diseaseName, part)
        m1 == Times(1000000, IF in("Lymphoma") \/ in("Cancer")
                             THEN multipliers.malignancy_multiplier ELSE 10)
        m2 == Times(m1, IF in("EBV") \/ in("CMV") \/ in("Tuberculosis") \/ in("TB")
                            \/ in("Chronic Infection")
                        THEN multipliers.chronic_infection_multiplier ELSE 10)
        m3 == Times(m2, IF in("Multiple Sclerosis") \/ in("MS")
                        THEN multipliers.MS_multiplier ELSE 10)
        m4 == Times(m3, IF in("POTS") \/ in("Autonomic Dysfunction")
                        THEN multipliers.dysautonomia_multiplier ELSE 10)
        m5 == Times(m4, IF in("Adrenal Insufficiency")
                        THEN multipliers.adrenal_insufficiency_multiplier ELSE 10)
    IN  Times(m5, IF in("Lupus") \/ in("Rheumatoid") \/ in("Still")
                      \/ in(MisencodedSjogren) \/ in("Vasculitis") \/ in("Sarcoidosis")
                  THEN multipliers.autoimmune_multiplier ELSE 10)

\* Math.min(multiplier, 2.0), multiplier in the given unit
CapAtTwo(multiplier, unit) == IF multiplier < 2 * unit THEN multiplier ELSE 2 * unit

\* demographicScore in tenths; age is profile.age, "" when there is no profile
DemographicScore(diseaseName, age) ==
    IF age = "" THEN 10
    ELSE IF NameIncludes(diseaseName, "Still") /\ ParseInt(C(age)) < 16 THEN 3
    ELSE IF NameIncludes(diseaseName, "MS") /\ ParseInt(C(age)) < 20 THEN 5
    ELSE 10

\* "at least 30% symptom match", in percent
AdvancedMatchThreshold == 30

\* matchedSymptoms: the symptoms with a relevance above 0 for the disease
MatchedSymptoms(diseaseName, syms) ==
    SelectSeq(syms, LAMBDA s : getDiseaseRelevanceFactor(diseaseName, s) > 0)

\* symptomClusterScore * 0.40: the sum of symptomScore * relevanceFactor (in
\* thousandths) over the matched symptoms, divided by max(symptoms.length,
\* expectedSymptomCount) and scaled by matched / max(symptoms.length, 1)
ClusterTerm(disease, syms, matchedSymptoms) ==
    IF Len(matchedSymptoms) = 0 THEN 0
    ELSE (SumSeq([i \in 1..Len(matchedSymptoms) |->
                     SymptomScoreOf[matchedSymptoms[i]]
                         * getDiseaseRelevanceFactor(disease.name, matchedSymptoms[i])])
              * Len(matchedSymptoms) * 4000)
         \div (Max({Len(syms), Len(disease.symptom_relevance_map)}) * Max({Len(syms), 1}))

\* systemOverlapScore * 0.20, times 1.5 for a multi-system condition when
\* three or more systems are involved; overlap is <<overlap, totalSystems>>
SystemTerm(conditionSystems, overlap, multiSystemCount) ==
    IF multiSystemCount >= 3 /\ Len(conditionSystems) >= 2
    THEN (overlap[1] * 3000000) \div overlap[2]
    ELSE (overlap[1] * 2000000) \div overlap[2]

SystemOverlapTerm(conditionSystems, systemInvolvement) ==
    SystemTerm(conditionSystems,
               calculateMultiSystemOverlap(conditionSystems, systemInvolvement),
               Len(systemInvolvement))

\* temporalScore * 0.15, the multiplier in thousandths
TemporalTerm(adjustments) ==
    IF Len(adjustments) > 0 THEN CapAtTwo(adjustments[1].multiplier, 1000) * 750
    ELSE 1500000

\* one pass of the forEach of the advanced calculateDiseaseScores: the entry
\* set in the Map, or skipped.  totalScore is in units of 10^-7.
ScoreOfMatched(disease, syms, matchedSymptoms, timeCourse, redFlagMultipliers, patterns, age, systemInvolvement) ==
    [skip |-> RatioBelow(Len(matchedSymptoms), Len(syms), AdvancedMatchThreshold),
     name |-> disease.name,
     score |-> ClusterTerm(disease, syms, matchedSymptoms)
               + SystemOverlapTerm(getConditionSystems(disease.name), systemInvolvement)
               + TemporalTerm(applyTimeCourseLogic(timeCourse, disease.name))
               + CapAtTwo(applyPatternMultipliers(disease.name, patterns), 1000000) \div 2
               + DemographicScore(disease.name, age) * 100000
               + CapAtTwo(applyRedFlagMultipliers(disease.name, redFlagMultipliers),
                          1000000) \div 4]

AdvancedDiseaseScore(disease, syms, timeCourse, redFlagMultipliers, patterns, age, systemInvolvement) ==
    ScoreOfMatched(disease, syms, MatchedSymptoms(disease.name, syms), timeCourse,
                   redFlagMultipliers, patterns, age, systemInvolvement)

\* the entries a forEach pass has set, in the order of DISEASE_DATABASE
RetainedScores(entries) ==
    [k \in 1..Len(entries) |-> [name |-> entries[k].name, score |-> entries[k].score]] \o <<>>

advancedCalculateDiseaseScores(syms, timeCourse, redFlagMultipliers, patterns, age, systemInvolvement) ==
    RetainedScores(
        SelectSeq([d \in 1..Len(DISEASE_DATABASE) |->
                      AdvancedDiseaseScore(DISEASE_DATABASE[d], syms, timeCourse,
                                           redFlagMultipliers, patterns, age,
                                           systemInvolvement)],
                  LAMBDA e : ~e.skip))

\* ---- cluster classification (scores in six-hundredths) ----
\* SYMPTOM_CLUSTER_MAP: a key written twice keeps its first place and its
\* later value
SYMPTOM_CLUSTER_MAP == <<
    <<"joint pain", <<"autoimmune">> >>,
    <<"migratory joint pain", <<"autoimmune">> >>,
    <<"rash", <<"autoimmune">> >>,
    <<"transient rash", <<"autoimmune">> >>,
    <<"swollen joints", <<"autoimmune">> >>,
    <<"dry eyes", <<"autoimmune">> >>,
    <<"dry mouth", <<"autoimmune">> >>,
    <<"numbness", <<"neurologic">> >>,
    <<"tingling", <<"neurologic">> >>,
    <<"vision problems", <<"neurologic">> >>,
    <<"blurred vision", <<"neurologic">> >>,
    <<"double vision", <<"neurologic">> >>,
    <<"weakness", <<"metabolic/nutritional", "neurologic", "endocrine">> >>,
    <<"memory problems", <<"neurologic">> >>,
    <<"confusion", <<"neurologic">> >>,
    <<"seizures", <<"neurologic">> >>,
    <<"balance problems", <<"neurologic">> >>,
    <<"weight loss", <<"malignancy/hematologic", "endocrine">> >>,
    <<"weight gain", <<"endocrine">> >>,
    <<"sweating", <<"endocrine">> >>,
    <<"cold intolerance", <<"endocrine">> >>,
    <<"heat intolerance", <<"endocrine">> >>,
    <<"fever", <<"infectious", "autoimmune", "malignancy/hematologic">> >>,
    <<"night sweats", <<"malignancy/hematologic", "infectious">> >>,
    <<"swollen glands", <<"malignancy/hematologic", "infectious">> >>,
    <<"cough", <<"infectious">> >>,
    <<"orthostatic dizziness", <<"autonomic dysfunction", "endocrine">> >>,
    <<"dizziness", <<"autonomic dysfunction", "neurologic", "endocrine">> >>,
    <<"heart palpitations", <<"autonomic dysfunction", "endocrine">> >>,
    <<"fatigue", <<"metabolic/nutritional", "endocrine", "autoimmune">> >>
>>

allClusters == <<"autoimmune", "endocrine", "neurologic", "infectious",
                 "malignancy/hematologic", "autonomic dysfunction",
                 "metabolic/nutritional">>

\* the clusters of one symptom: exact key, else first partial match, else the default
ClustersOfSymptom(symptom) ==
    LET normalizedSymptom == Normalized(symptom)
        keys == 1..Len(SYMPTOM_CLUSTER_MAP)
        exact == {i \in keys : C(SYMPTOM_CLUSTER_MAP[i][1]) = normalizedSymptom}
        partial == {i \in keys : PartialMatch(normalizedSymptom, C(SYMPTOM_CLUSTER_MAP[i][1]))}
    IN  IF exact # {} THEN SYMPTOM_CLUSTER_MAP[Min(exact)][2]
        ELSE IF partial # {} THEN SYMPTOM_CLUSTER_MAP[Min(partial)][2]
        ELSE <<"metabolic/nutritional">>

\* symptomWeights.get(normalizedSymptom) || 0.5, in hundredths; symptomWeights
\* is the list of the <<key, value>> pairs set, a later pair replacing an earlier
WeightOrHalf(symptomWeights, normalizedSymptom) ==
    LET hits == {i \in 1..Len(symptomWeights) : symptomWeights[i][1] = normalizedSymptom}
    IN  IF hits = {} \/ symptomWeights[Max(hits)][2] = 0 THEN 50
        ELSE symptomWeights[Max(hits)][2]

\* stable sort by descending score, as Array.prototype.sort((a, b) => b.score - a.score)
RECURSIVE InsertByScore(_, _)
InsertByScore(sorted, c) ==
    IF sorted = <<>> THEN <<c>>
    ELSE IF sorted[Len(sorted)].score < c.score
    THEN InsertByScore(SubSeq(sorted, 1, Len(sorted) - 1), c) \o <<sorted[Len(sorted)]>>
    ELSE sorted \o <<c>>

RECURSIVE SortByScore(_)
SortByScore(entries) ==
    IF entries = <<>> THEN <<>>
    ELSE InsertByScore(SortByScore(SubSeq(entries, 1, Len(entries) - 1)),
                       entries[Len(entries)])

classifySymptomClusters(syms, symptomWeights) ==
    LET share(i) == (WeightOrHalf(symptomWeights, Normalized(syms[i])) * 6)
                        \div Len(ClustersOfSymptom(syms[i]))
        total(cluster) ==
            SumSeq([i \in 1..Len(syms) |->
                       IF Contains(ClustersOfSymptom(syms[i]), cluster) THEN share(i) ELSE 0])
    IN  SortByScore([k \in 1..Len(allClusters) |->
                        [cluster |-> allClusters[k], score |-> total(allClusters[k])]])

\* the prefix taken by the loop: entries up to the first whose cumulative
\* score reaches 60% of the total, the entries of score 0 left out
RECURSIVE DominantPrefix(_, _, _, _)
DominantPrefix(clusterScores, k, cumulativeScore, totalScore) ==
    IF k > Len(clusterScores) THEN <<>>
    ELSE IF clusterScores[k].score > 0
    THEN <<clusterScores[k].cluster>>
         \o (IF 10 * (cumulativeScore + clusterScores[k].score) >= 6 * totalScore THEN <<>>
             ELSE DominantPrefix(clusterScores, k + 1,
                                 cumulativeScore + clusterScores[k].score, totalScore))
    ELSE DominantPrefix(clusterScores, k + 1, cumulativeScore, totalScore)

\* a variant that returns the top cluster alone
getDominantClusters_TopOnly(clusterScores) ==
    IF Len(clusterScores) = 0 \/ SumSeq([k \in 1..Len(clusterScores) |-> clusterScores[k].score]) = 0
    THEN <<"metabolic/nutritional">>
    ELSE <<clusterScores[1].cluster>>

getDominantClusters(clusterScores) ==
    LET totalScore == SumSeq([k \in 1..Len(clusterScores) |-> clusterScores[k].score])
        dominant == DominantPrefix(clusterScores, 1, 0, totalScore)
    IN  IF Len(clusterScores) = 0 \/ totalScore = 0 THEN <<"metabolic/nutritional">>
        ELSE IF dominant = <<>> THEN <<clusterScores[1].cluster>>
        ELSE dominant

\* ---- the condition filtering rules of the advanced flow ----
AdvancedRule3(text, symptomsLower) ==
    /\ Has(symptomsLower, "palpitation")
    /\ (Has(text, "stress") \/ Has(text, "exertion") \/ Has(text, "trigger"))
    /\ (Has(symptomsLower, "tremor") \/ Has(symptomsLower, "shaking"))

\* priorityConditions: a name is listed once for every rule that pushes it
advancedApplyConditionFiltering(syms, ans) ==
    LET symptomsLower == ToLowerCase(Join(syms, <<" ">>))
        text == ToLowerCase(Join(syms, <<" ">>) \o <<" ">> \o Join(ans, <<" ">>))
    IN  (IF PriorityRule1(symptomsLower)
         THEN <<"Hyperthyroidism", "Graves' Disease", "Pheochromocytoma">> ELSE <<>>)
        \o (IF PriorityRule2(symptomsLower)
            THEN <<"Diabetes Mellitus Type 2", "Hyperthyroidism">> ELSE <<>>)
        \o (IF AdvancedRule3(text, symptomsLower)
            THEN <<"Pheochromocytoma", "Hyperthyroidism", "POTS", "Autonomic Dysfunction">>
            ELSE <<>>)
        \o (IF PriorityRule3(symptomsLower)
            THEN <<"Multiple Sclerosis (MS)", "POTS", "Autonomic Dysfunction",
                   "Guillain-Barre Syndrome (GBS)">>
            ELSE <<>>)

\* priorityConditions.forEach: (diseaseScores.get(name) || 0) * 1.3 is set
\* under the name, which is added at the end when the Map does not hold it
RECURSIVE BoostPriorityConditions(_, _)
BoostPriorityConditions(scores, priorityConditions) ==
    IF priorityConditions = <<>> THEN scores
    ELSE LET conditionName == Head(priorityConditions)
             hits == {k \in 1..Len(scores) : scores[k].name = conditionName}
             boosted == IF hits = {}
                        THEN Append(scores, [name |-> conditionName, score |-> 0])
                        ELSE [k \in 1..Len(scores) |->
                                 IF k \in hits
                                 THEN [name |-> scores[k].name,
                                       score |-> (scores[k].score * 13) \div 10]
                                 ELSE scores[k]]
         IN  BoostPriorityConditions(boosted, Tail(priorityConditions))

\* <<floor(n * 10^digits / d), the remainder>> by long division
RECURSIVE LongDivision(_, _, _)
LongDivision(n, d, digits) ==
    IF digits = 0 THEN <<n \div d, n % d>>
    ELSE LET p == LongDivision(n, d, digits - 1)
         IN  <<p[1] * 10 + (p[2] * 10) \div d, (p[2] * 10) % d>>

\* (score / maxScore) * 100 in millionths of a percent
PercentOf(score, maxScore) == LongDivision(score, maxScore, 8)[1]

advancedNormalizeScores(scores) ==
    IF scores = <<>> THEN scores
    ELSE LET maxScore == Max({scores[k].score : k \in 1..Len(scores)})
         IN  IF maxScore = 0 THEN scores
             ELSE [k \in 1..Len(scores) |->
                      LET normalizedScore == PercentOf(scores[k].score, maxScore)
                      IN  [name |-> scores[k].name,
                           score |-> IF scores[k].score > 0 /\ normalizedScore < 5000000
                                     THEN 5000000 ELSE normalizedScore]] \o <<>>

\* ---- advancedSymptomAnalysis ----
\* sortedAll.indexOf([_, score]): the argument is a new array, which is
\* identical to no element of sortedAll
MaxReturned == 10

TopRanks == 3

\* 25 in the units of the normalized scores
ReturnThreshold == 25000000

IndexOfNewArray(sortedAll) == -1

\* the ConditionResult pushed for one entry of sortedDiseases, none for a name
\* that DISEASE_DATABASE does not hold.  likelihood is displayScore / 100 in
\* units of 10^-8.  The explanation is the text the language model returns
\* and is left out.
AdvancedConditionResults(entry) ==
    IF \A d \in 1..Len(DISEASE_DATABASE) : DISEASE_DATABASE[d].name # entry.name THEN <<>>
    ELSE LET disease == DISEASE_DATABASE[DiseaseIndex(entry.name)]
             displayScore == IF entry.score < 5000000 /\ entry.score > 0 THEN 5000000
                             ELSE entry.score
         IN  <<[condition |-> entry.name,
                likelihood |-> displayScore,
                cluster |-> disease.cluster,
                displayLikelihood |->
                    IF displayScore < 10000000 /\ displayScore > 0
                    THEN C("Low likelihood (<10%)")
                    ELSE ToDigits((displayScore + 500000) \div 1000000) \o <<"%">>]>>

RECURSIVE AdvancedFlatMap(_)
AdvancedFlatMap(entries) ==
    IF entries = <<>> THEN <<>>
    ELSE AdvancedConditionResults(Head(entries)) \o AdvancedFlatMap(Tail(entries))

\* the steps from sortedAll to the conditions returned
ReturnedConditions(sortedAll) ==
    AdvancedFlatMap(
        Slice(SelectSeq(sortedAll,
                        LAMBDA e : \/ e.score >= (IF sortedAll = <<>> \/ sortedAll[1].score < ReturnThreshold
                                                  THEN 0 ELSE ReturnThreshold)
                                   \/ IndexOfNewArray(sortedAll) < TopRanks),
              MaxReturned))

\* the value returned once the inputs of the scoring are computed
AnalysisOutput(syms, timeCourse, flags, sortedAll, clusterScores) ==
    [conditions |-> ReturnedConditions(sortedAll),
     dominant_clusters |-> getDominantClusters(clusterScores),
     red_flags |-> flags.redFlags,
     time_course |->
         [duration_days |-> timeCourse.duration_days,
          pattern |-> IF timeCourse.pattern = "" THEN "unknown" ELSE timeCourse.pattern,
          interpretation |-> timeCourseInterpretation(timeCourse, syms)]]

\* symptomWeights: the <<key, value>> pairs set for the symptoms
SymptomWeights(syms) ==
    [i \in 1..Len(syms) |-> <<Normalized(syms[i]), SymptomScoreOf[syms[i]]>>] \o <<>>

\* the scoring: calculateDiseaseScores, the priority boost, normalizeScores and the sort
SortedAll(syms, ans, timeCourse, flags, patterns, age) ==
    SortByScore(
        advancedNormalizeScores(
            BoostPriorityConditions(
                advancedCalculateDiseaseScores(syms, timeCourse, flags.multipliers, patterns,
                                               age, analyzeSystemInvolvement(syms)),
                advancedApplyConditionFiltering(syms, ans))))

AnalysisOf(syms, ans, timeCourse, flags, patterns, age) ==
    AnalysisOutput(syms, timeCourse, flags,
                   SortedAll(syms, ans, timeCourse, flags, patterns, age),
                   classifySymptomClusters(syms, SymptomWeights(syms)))

\* input is [symptoms, questionnaireAnswers, age]: the two strings of the
\* request and profile.age ("" when the profile gives none)
advancedSymptomAnalysis(input) ==
    AnalysisOf(extractSymptomsList(input.symptoms),
               <<input.questionnaireAnswers>>,
               extractTimeCourseData(input.symptoms, <<input.questionnaireAnswers>>),
               detectRedFlags(input.symptoms, <<input.questionnaireAnswers>>),
               detectPatterns(input.symptoms, <<input.questionnaireAnswers>>),
               input.age)

\* ------------------------------------------------------------------------
\* Specification SpecAdv: advancedSymptomAnalysis on a request
\* ------------------------------------------------------------------------
\* the lists of at most n tokens of the vocabulary, in its order
AdvancedLists(n) ==
    {[k \in 1..Cardinality(S) |-> AdvancedVocabulary[Kth(S, k)]] :
        S \in {T \in SUBSET (1..Len(AdvancedVocabulary)) : Cardinality(T) <= n}}

AdvancedAnswers == {"worse with stress", "lost 5 kg, dizziness on standing for 3 weeks"}

ProfileAges == {"", "15"}

InitAdv ==
    /\ symptoms \in AdvancedLists(MaxAdvanced)
    /\ answers \in SeqsUpTo(AdvancedAnswers, MaxAnswers)
    /\ apiKey \in BOOLEAN
    /\ profileAge \in ProfileAges
    /\ ran = {}
    /\ error = ""
    /\ IdleTime /\ IdleSimple /\ IdleDisplay /\ IdleAdvanced /\ IdleLlm /\ IdleProcess

AdvancedInput ==
    [symptoms |-> SymptomsText(symptoms),
     questionnaireAnswers |-> QuestionnaireAnswers(answers),
     age |-> profileAge]

AdvancedSymptomAnalysis ==
    /\ ran = {}
    /\ ran' = ran \cup {"advancedSymptomAnalysis"}
    /\ error' = advancedGuards(apiKey, SymptomsText(symptoms))
    /\ advanced' = IF error' = "" THEN advancedSymptomAnalysis(AdvancedInput) ELSE advanced
    /\ tcServer' = IF error' = ""
                   THEN serverTimeCourse(SymptomsText(symptoms), QuestionnaireAnswers(answers))
                   ELSE tcServer
    /\ UNCHANGED <<symptoms, answers, apiKey, profileAge, processVars, wizard, llm, tcClient, simpleVars, displayVars>>

NextAdv == AdvancedSymptomAnalysis

SpecAdv == InitAdv /\ [][NextAdv]_vars

\* ---- properties of the advanced pipeline ----
AdvancedRan == "advancedSymptomAnalysis" \in ran /\ error = ""

\* the symptom list the flow works on
AdvancedSymptoms == extractSymptomsList(SymptomsText(symptoms))

\* matchedSymptoms.length for a condition name
AdvancedMatched(name) ==
    Cardinality({i \in 1..Len(AdvancedSymptoms) :
                    getDiseaseRelevanceFactor(name, AdvancedSymptoms[i]) > 0})

\* C2: no ConditionResult returned by advancedSymptomAnalysis has likelihood 0
\* or displayLikelihood "0%"; a condition whose score is 0 is dropped.
C2_NoZeroLikelihood ==
    AdvancedRan =>
        \A k \in 1..Len(advanced.conditions) :
            /\ advanced.conditions[k].likelihood # 0
            /\ advanced.conditions[k].displayLikelihood # C("0%")

\* C9: every condition returned by advancedSymptomAnalysis matches at least
\* 30% of the reported symptoms, whatever priority rules fire.
C9_BelowThirtyPercentDropped ==
    AdvancedRan =>
        \A k \in 1..Len(advanced.conditions) :
            ~RatioBelow(AdvancedMatched(advanced.conditions[k].condition),
                        Len(AdvancedSymptoms), AdvancedMatchThreshold)

\* advancedSymptomAnalysis has been called, whether it returned or threw
AdvancedCalled == "advancedSymptomAnalysis" \in ran

\* C14: for symptoms that split to zero tokens, scoreSymptoms and
\* advancedSymptomAnalysis both return a result whose conditions list is empty
\* and raise no error. (The server action throws 'No symptoms detected'.)
C14_EmptyListNoError ==
    /\ (ScoredRan /\ symptoms = <<>>) => scored.conditions = <<>>
    /\ (AdvancedCalled /\ apiKey /\ extractSymptomsList(SymptomsText(symptoms)) = <<>>)
           => error = "" /\ advanced.conditions = <<>>

\* C15: with no API key configured, advancedSymptomAnalysis still completes
\* and returns its ranked conditions instead of raising. (The server action
\* throws before it reads its input.)
C15_CompletesWithoutApiKey ==
    (AdvancedCalled /\ ~apiKey /\ symptoms # <<>>)
        => error = "" /\ advanced.conditions # <<>>

\* the time course the request's scoring ran with
RequestTimeCourse ==
    extractTimeCourseData(SymptomsText(symptoms), <<QuestionnaireAnswers(answers)>>)

\* 0.15 * min(m, 2) / 2 in units of 10^-7, m in thousandths
StatedTemporalTerm(m) == CapAtTwo(m, 1000) * 750

\* the temporal term the scoring added for the condition
TemporalTermOf(name) == TemporalTerm(applyTimeCourseLogic(RequestTimeCourse, name))

\* C20: the temporal term of every retained condition is 0.15 * min(m, 2) / 2,
\* m being its time-course multiplier and 1.0 when no adjustment applies; so
\* a condition the time-course logic upranks (m > 1) never gets a smaller
\* temporal term than the same condition gets with no adjustment. (The code
\* adds 0.15 * 1.0 when no adjustment applies, twice the stated 0.075, and an
\* upranked condition with m < 2 gets less than that.)
C20_TemporalTermNormalized ==
    AdvancedRan =>
        \A k \in 1..Len(advanced.conditions) :
            LET name == advanced.conditions[k].condition
            IN  /\ TemporalTermOf(name)
                       = StatedTemporalTerm(TimeCourseMultiplier(RequestTimeCourse, name))
                /\ TimeCourseMultiplier(RequestTimeCourse, name) > 1000
                       => TemporalTermOf(name) >= TemporalTerm(<<>>)

\* the second half of C20 alone: an upranked condition's temporal term is not
\* below the term of a condition without adjustment
C20_UprankNeverSmaller ==
    AdvancedRan =>
        \A k \in 1..Len(advanced.conditions) :
            TimeCourseMultiplier(RequestTimeCourse, advanced.conditions[k].condition) > 1000
                => TemporalTermOf(advanced.conditions[k].condition) >= TemporalTerm(<<>>)


\* ------------------------------------------------------------------------
\* Specification of requests that fire the priority rules of the analysis
\* ------------------------------------------------------------------------
MaxBoosted == 4

\* tokens that between them satisfy each of the four rules of
\* applyConditionFiltering
BoostVocabulary ==
    <<"weight loss", "heat intolerance", "heart palpitations", "tremor",
      "excessive thirst", " Numbness", "dizziness">>

BoostLists(n) ==
    {[k \in 1..Cardinality(S) |-> BoostVocabulary[Kth(S, k)]] :
        S \in {T \in SUBSET (1..Len(BoostVocabulary)) : Cardinality(T) <= n}}

BoostAnswers == {"worse with stress"}

InitBoost ==
    /\ symptoms \in BoostLists(MaxBoosted)
    /\ answers \in SeqsUpTo(BoostAnswers, MaxAnswers)
    /\ apiKey = TRUE
    /\ profileAge = ""
    /\ ran = {}
    /\ error = ""
    /\ IdleTime /\ IdleSimple /\ IdleDisplay /\ IdleAdvanced /\ IdleLlm /\ IdleProcess

SpecBoost == InitBoost /\ [][NextAdv]_vars

\* the symptom list and the answers the request's two strings are read back to
RequestSymptoms == extractSymptomsList(SymptomsText(symptoms))

RequestAnswers == <<QuestionnaireAnswers(answers)>>

\* diseaseScores as calculateDiseaseScores returns it for the request
ComposedScores ==
    advancedCalculateDiseaseScores(
        RequestSymptoms, RequestTimeCourse,
        detectRedFlags(SymptomsText(symptoms), RequestAnswers).multipliers,
        detectPatterns(SymptomsText(symptoms), RequestAnswers),
        profileAge, analyzeSystemInvolvement(RequestSymptoms))

\* priorityConditions of the request
PriorityConditions == advancedApplyConditionFiltering(RequestSymptoms, RequestAnswers)

Named(names) == {names[k] : k \in 1..Len(names)}

\* every score of composed is multiplied once if priority names it and is
\* unchanged otherwise
BoostedOnce(composed, priority) ==
    LET boosted == BoostPriorityConditions(composed, priority)
    IN  \A k \in 1..Len(composed) :
            boosted[k].score = IF composed[k].name \in Named(priority)
                               THEN (composed[k].score * 13) \div 10
                               ELSE composed[k].score



\* C21: a retained condition named by a priority rule has its composed score
\* multiplied by 1.3 exactly once before normalization, also when several
\* rules that fire name it; a retained condition no rule names keeps its
\* composed score.
C21_BoostedExactlyOnce ==
    AdvancedRan => BoostedOnce(ComposedScores, PriorityConditions)


\* the names of the reference table
TableConditions == {DISEASE_DATABASE[d].name : d \in 1..Len(DISEASE_DATABASE)}

\* the table's conditions whose score advancedSymptomAnalysis multiplies by 1.3
AdvancedBoosted(syms, ans) ==
    Named(advancedApplyConditionFiltering(syms, ans)) \cap TableConditions

\* the table's conditions whose score the simple calculateDiseaseScores
\* multiplies by 1.3
SimpleBoosted(syms) == Named(applyConditionFiltering(syms)) \cap TableConditions

\* C22: for a request without answers the advanced analysis boosts the same
\* conditions of the reference table as the simple scorer does for the same
\* symptom list.
C22_SameBoostAsSimple ==
    (AdvancedRan /\ answers = <<>>) =>
        AdvancedBoosted(RequestSymptoms, RequestAnswers) = SimpleBoosted(CharsOf(symptoms))


\* excludedConditions as applyConditionFiltering fills it; the function
\* returns priorityConditions only and no caller reads this array
excludedConditions(syms, ans) ==
    LET symptomsLower == ToLowerCase(Join(syms, <<" ">>))
        text == ToLowerCase(Join(syms, <<" ">>) \o <<" ">> \o Join(ans, <<" ">>))
    IN  (IF PriorityRule1(symptomsLower)
         THEN <<"Vitamin B12 Deficiency", "Iron Deficiency Anemia">> ELSE <<>>)
        \o (IF AdvancedRule3(text, symptomsLower)
            THEN <<"Vitamin B12 Deficiency">> ELSE <<>>)

ReturnedNames == {advanced.conditions[k].condition : k \in 1..Len(advanced.conditions)}

\* C23: when a rule that lists excluded conditions fires, none of the
\* conditions it excludes is among the conditions returned.
C23_ExcludedNotReturned ==
    AdvancedRan =>
        ReturnedNames \cap Named(excludedConditions(RequestSymptoms, RequestAnswers)) = {}


\* C24: at most 10 conditions are returned, and a returned condition is one
\* of the 3 highest-ranked or has a normalized score of at least 25.
C24_TopTenAboveThreshold ==
    AdvancedRan =>
        /\ Len(advanced.conditions) <= MaxReturned
        /\ \A k \in 1..Len(advanced.conditions) :
               k <= TopRanks \/ advanced.conditions[k].likelihood >= ReturnThreshold

\* the first half of C24 alone
C24_AtMostTen == AdvancedRan => Len(advanced.conditions) <= MaxReturned

\* a returned condition below the threshold and outside the top 3 that has a
\* positive score
C24_PositiveBelowThreshold ==
    AdvancedRan =>
        \A k \in 1..Len(advanced.conditions) :
            \/ k <= TopRanks
            \/ advanced.conditions[k].likelihood >= ReturnThreshold
            \/ advanced.conditions[k].likelihood = 0

\* ------------------------------------------------------------------------
\* Specification of a process that evaluates the pipeline repeatedly
\* ------------------------------------------------------------------------
\* The tables are module constants of the process.  The functions read them
\* and build their results in arrays and Maps created by the call itself (the
\* sort of scoreSymptoms and of classifySymptomClusters is applied to such a
\* local array), so a call leaves the tables as they are and takes nothing
\* from the calls made before it.
ReferenceTables == [symptomWeights |-> SYMPTOM_WEIGHTS, diseases |-> DISEASE_DATABASE]

PipelineInputs ==
    {[symptoms |-> <<"weight loss", "night sweats">>, answers |-> <<"for 3 weeks">>,
      age |-> "15"],
     [symptoms |-> <<"chest pain", "Fainting", "difficulty breathing">>, answers |-> <<>>,
      age |-> ""]}

\* a variant that works on the request left behind by the previous call
CallInput_Stale(input, earlier) ==
    IF earlier = <<>> THEN input ELSE earlier[Len(earlier)].input

\* the request a call works on in a process that has made the earlier calls:
\* its own arguments, none of the earlier calls is read
CallInput(input, earlier) == input

InitProcess ==
    /\ symptoms = <<>>
    /\ answers = <<>>
    /\ apiKey = FALSE
    /\ profileAge = ""
    /\ ran = {}
    /\ error = ""
    /\ IdleTime /\ IdleSimple /\ IdleDisplay /\ IdleAdvanced /\ IdleLlm
    /\ reference = ReferenceTables
    /\ IdleWizard
    /\ evaluations = <<>>

Evaluated(function, input, result) ==
    /\ Len(evaluations) < MaxEvaluations
    /\ evaluations' = Append(evaluations,
                             [function |-> function, input |-> input, result |-> result])
    /\ UNCHANGED <<symptoms, answers, apiKey, profileAge, ran, error, tcClient, tcServer,
                   simpleVars, displayVars, advanced, llm, reference, wizard>>

EvaluateScoreSymptoms ==
    \E input \in PipelineInputs :
        LET own == CallInput(input, evaluations)
        IN  Evaluated("scoreSymptoms", input,
                      scoreSymptoms(CharsOf(own.symptoms), CharsOf(own.answers)))

EvaluateInferTimeCourse ==
    \E input \in PipelineInputs :
        LET own == CallInput(input, evaluations)
        IN  Evaluated("inferTimeCourse", input, inferTimeCourse(own.symptoms, own.answers))

EvaluateDetectRedFlags ==
    \E input \in PipelineInputs :
        LET own == CallInput(input, evaluations)
        IN  Evaluated("detectRedFlags", input,
                      detectRedFlags(SymptomsText(own.symptoms),
                                     <<QuestionnaireAnswers(own.answers)>>))

EvaluateDetectPatterns ==
    \E input \in PipelineInputs :
        LET own == CallInput(input, evaluations)
        IN  Evaluated("detectPatterns", input,
                      detectPatterns(SymptomsText(own.symptoms),
                                     <<QuestionnaireAnswers(own.answers)>>))

EvaluateClassifySymptomClusters ==
    \E input \in PipelineInputs :
        LET syms == CharsOf(CallInput(input, evaluations).symptoms)
        IN  Evaluated("classifySymptomClusters", input,
                      classifySymptomClusters(syms, SymptomWeights(syms)))

NextProcess ==
    \/ EvaluateScoreSymptoms
    \/ EvaluateInferTimeCourse
    \/ EvaluateDetectRedFlags
    \/ EvaluateDetectPatterns
    \/ EvaluateClassifySymptomClusters

SpecProcess == InitProcess /\ [][NextProcess]_vars

MaxLookups == 2

\* what a lookup returns: a number, NaN, or a value that is no number
JsNumber(n) == [type |-> "number", value |-> n]

JsNaN == [type |-> "NaN", value |-> 0]

JsObject == [type |-> "object", value |-> 0]

\* The tables are object literals, so table[key] also finds the properties
\* the object inherits from Object.prototype.  A token is lower-cased before
\* the read; these are the inherited names without an upper-case letter.
InheritedProperties == {"constructor", "__proto__"}

IsInherited(symptom) == \E p \in InheritedProperties : Normalized(symptom) = C(p)

\* getSymptomScore of symptom-weights.ts, in hundredths: the exact read finds
\* an own key or an inherited property, whose severity_weight and
\* specificity_weight are undefined
symptomScoreOf(symptom) ==
    IF IsInherited(symptom) THEN JsNaN ELSE JsNumber(getSymptomScore(symptom))

\* getDiseaseRelevanceFactor of disease-database.ts, in tenths: the exact read
\* returns what it finds when that is truthy
relevanceFactorOf(diseaseName, symptom) ==
    IF diseaseName \notin TableConditions THEN JsNumber(0)
    ELSE IF IsInherited(symptom) THEN JsObject
    ELSE JsNumber(getDiseaseRelevance(DISEASE_DATABASE[DiseaseIndex(diseaseName)], symptom))

\* tokens: exact keys, an exact key that follows a key it contains, a key
\* inside the token, the token inside a key, upper case and blanks, the empty
\* token, a token without a match, and a name every object inherits
LookupTokens ==
    {"fatigue", "chest pain", "dizziness", "orthostatic dizziness", " Severe Fatigue ",
     "dizz", "", "xyz", "constructor"}

LookupDiseases ==
    {"Autonomic Dysfunction", "POTS (Postural Orthostatic Tachycardia Syndrome)",
     "Hyperthyroidism", "POTS"}

InitLookup ==
    /\ symptoms = <<>>
    /\ answers = <<>>
    /\ apiKey = FALSE
    /\ profileAge = ""
    /\ ran = {}
    /\ error = ""
    /\ IdleTime /\ IdleSimple /\ IdleDisplay /\ IdleAdvanced /\ IdleLlm
    /\ reference = ReferenceTables
    /\ IdleWizard
    /\ evaluations = <<>>

LookedUp(function, diseaseName, symptom, result) ==
    /\ Len(evaluations) < MaxLookups
    /\ evaluations' = Append(evaluations,
                             [function |-> function,
                              input |-> [diseaseName |-> diseaseName, symptom |-> symptom],
                              result |-> result])
    /\ UNCHANGED <<symptoms, answers, apiKey, profileAge, ran, error, tcClient, tcServer,
                   simpleVars, displayVars, advanced, llm, reference, wizard>>

GetSymptomScore ==
    \E symptom \in LookupTokens :
        LookedUp("getSymptomScore", "", symptom, symptomScoreOf(C(symptom)))

GetDiseaseRelevanceFactor ==
    \E diseaseName \in LookupDiseases, symptom \in LookupTokens :
        LookedUp("getDiseaseRelevanceFactor", diseaseName, symptom,
                 relevanceFactorOf(diseaseName, C(symptom)))

NextLookup == GetSymptomScore \/ GetDiseaseRelevanceFactor

SpecLookup == InitLookup /\ [][NextLookup]_vars

\* ---- properties of the lookups ----
\* the keys of a table that the token equals, and those that contain it or
\* are contained in it, as positions in declaration order
ExactKeys(keys, token) == {i \in 1..Len(keys) : keys[i] = token}

ContainmentKeys(keys, token) ==
    {i \in 1..Len(keys) : Includes(token, keys[i]) \/ Includes(keys[i], token)}

\* the stated rule: the value of the equal key, else of the first key in
\* containment, else the default
TwoPhase(keys, values, token, default) ==
    IF ExactKeys(keys, token) # {} THEN values[Min(ExactKeys(keys, token))]
    ELSE IF ContainmentKeys(keys, token) # {} THEN values[Min(ContainmentKeys(keys, token))]
    ELSE default

WeightKeys == [i \in 1..Len(SYMPTOM_WEIGHTS) |-> SYMPTOM_WEIGHTS[i].key]

WeightValues ==
    [i \in 1..Len(SYMPTOM_WEIGHTS) |->
        SYMPTOM_WEIGHTS[i].severity_weight * SYMPTOM_WEIGHTS[i].specificity_weight]

RelevanceKeys(map) == [i \in 1..Len(map) |-> map[i][1]]

RelevanceValues(map) == [i \in 1..Len(map) |-> map[i][2]]

DefaultSymptomScore == 5 * 3

\* what the stated rule gives for a call
StatedResult(call) ==
    LET token == Normalized(C(call.input.symptom))
    IN  IF call.function = "getSymptomScore"
        THEN JsNumber(TwoPhase(WeightKeys, WeightValues, token, DefaultSymptomScore))
        ELSE IF call.input.diseaseName \notin TableConditions THEN JsNumber(0)
        ELSE LET map == DISEASE_DATABASE[DiseaseIndex(call.input.diseaseName)].symptom_relevance_map
             IN  JsNumber(TwoPhase(RelevanceKeys(map), RelevanceValues(map), token, 0))

\* C25: every lookup returns the value of the exactly equal key when there is
\* one, otherwise the value of the first key in declaration order that
\* contains the token or is contained in it, otherwise the default (0.15 for
\* the symptom score, 0 for the relevance); equal calls give equal results.
C25_TwoPhaseLookup ==
    /\ \A k \in 1..Len(evaluations) : evaluations[k].result = StatedResult(evaluations[k])
    /\ \A j, k \in 1..Len(evaluations) :
           (evaluations[j].function = evaluations[k].function
                /\ evaluations[j].input = evaluations[k].input)
               => evaluations[j].result = evaluations[k].result

\* C25 for the tokens that are no inherited property name
C25_TwoPhaseOwnKeys ==
    \A k \in 1..Len(evaluations) :
        ~IsInherited(C(evaluations[k].input.symptom))
            => evaluations[k].result = StatedResult(evaluations[k])


\* ------------------------------------------------------------------------
\* Specification of the body-system analyzer
\* ------------------------------------------------------------------------
MaxSystemSymptoms == 2

\* tokens: exact keys, upper case and blanks, a token that contains a key, a
\* token inside a key, and a token without a match
SystemTokens == <<"dizziness", " Tremor ", "severe dizziness", "dizz", "weight loss", "xyz">>

SystemLists(n) ==
    Distinct(SeqsUpTo({SystemTokens[i] : i \in 1..Len(SystemTokens)}, n)) \ {<<>>}

AnalyzeSystemInvolvement ==
    \E list \in SystemLists(MaxSystemSymptoms) :
        /\ Len(evaluations) < MaxLookups
        /\ evaluations' = Append(evaluations,
                                 [function |-> "analyzeSystemInvolvement",
                                  input |-> list,
                                  result |-> analyzeSystemInvolvement(CharsOf(list))])
        /\ UNCHANGED <<symptoms, answers, apiKey, profileAge, ran, error, tcClient, tcServer,
                       simpleVars, displayVars, advanced, llm, reference, wizard>>

NextSystems == AnalyzeSystemInvolvement

SpecSystems == InitLookup /\ [][NextSystems]_vars

\* ---- properties of the body-system analyzer ----
SystemKeys == [i \in 1..Len(SYMPTOM_SYSTEM_MAP) |-> C(SYMPTOM_SYSTEM_MAP[i][1])]

SystemValues == [i \in 1..Len(SYMPTOM_SYSTEM_MAP) |-> SYMPTOM_SYSTEM_MAP[i][2]]

\* the systems the fuzzy rule gives a token: those of the equal key, else of
\* the first key in containment, else the catch-all
FuzzySystems(symptom) ==
    TwoPhase(SystemKeys, SystemValues, Normalized(symptom), <<"endocrine/metabolic">>)

\* the systems under which a result lists the symptom
AssignedSystems(result, symptom) ==
    {result[k].system : k \in {j \in 1..Len(result) : Contains(result[j].symptoms, symptom)}}

\* C26: analyzeSystemInvolvement lists every symptom under the systems of the
\* key the fuzzy rule finds for it (equal key, else the first key that
\* contains the token or is contained in it), under the catch-all
\* 'endocrine/metabolic' only when there is no such key, and drops no symptom.
C26_FuzzySystemLookup ==
    \A k \in 1..Len(evaluations) :
        \A i \in 1..Len(evaluations[k].input) :
            LET symptom == C(evaluations[k].input[i])
            IN  /\ AssignedSystems(evaluations[k].result, symptom) # {}
                /\ AssignedSystems(evaluations[k].result, symptom)
                       = Named(FuzzySystems(symptom))

\* the last part of C26 alone: every symptom is listed under some system
C26_NoSymptomDropped ==
    \A k \in 1..Len(evaluations) :
        \A i \in 1..Len(evaluations[k].input) :
            AssignedSystems(evaluations[k].result, C(evaluations[k].input[i])) # {}


\* ------------------------------------------------------------------------
\* Specification of the choice of the dominant clusters
\* ------------------------------------------------------------------------
MaxClusterScores == 3

MaxClusterScore == 3

ScoredClusters == {"endocrine", "neurologic", "autonomic dysfunction", "metabolic/nutritional"}

\* lists of cluster scores as classifySymptomClusters sorts them: no cluster
\* twice, scores not negative and in descending order
ClusterScoreLists(n, top) ==
    {list \in SeqsUpTo([cluster : ScoredClusters, score : 0..top], n) :
        /\ \A i, j \in 1..Len(list) : i < j => /\ list[i].cluster # list[j].cluster
                                               /\ list[i].score >= list[j].score}

GetDominantClusters ==
    \E clusterScores \in ClusterScoreLists(MaxClusterScores, MaxClusterScore) :
        /\ evaluations = <<>>
        /\ evaluations' = <<[function |-> "getDominantClusters",
                              input |-> clusterScores,
                              result |-> getDominantClusters(clusterScores)]>>
        /\ UNCHANGED <<symptoms, answers, apiKey, profileAge, ran, error, tcClient, tcServer,
                       simpleVars, displayVars, advanced, llm, reference, wizard>>

NextDominant == GetDominantClusters

SpecDominant == InitLookup /\ [][NextDominant]_vars

\* ---- properties of the dominant clusters ----
TotalScore(clusterScores) ==
    SumSeq([k \in 1..Len(clusterScores) |-> clusterScores[k].score])

\* the prefix of length n holds at least 60% of the total
ReachesThreshold(clusterScores, n) ==
    10 * TotalScore(SubSeq(clusterScores, 1, n)) >= 6 * TotalScore(clusterScores)

\* the clusters of the smallest prefix that holds at least 60% of the total
SmallestPrefix(clusterScores) ==
    LET n == Min({m \in 1..Len(clusterScores) : ReachesThreshold(clusterScores, m)})
    IN  [k \in 1..n |-> clusterScores[k].cluster]

ScoreOfCluster(clusterScores, cluster) ==
    clusterScores[CHOOSE k \in 1..Len(clusterScores) : clusterScores[k].cluster = cluster].score

\* a cluster of the result that the list holds with score 0
ZeroInResult(call) ==
    \E k \in 1..Len(call.input) :
        call.input[k].score = 0 /\ Contains(call.result, call.input[k].cluster)

\* the first two sentences of C27 for one call
PrefixOrCatchAll(call) ==
    /\ call.result # <<>>
    /\ (call.input = <<>> \/ TotalScore(call.input) = 0)
           => call.result = <<"metabolic/nutritional">>
    /\ (call.input # <<>> /\ TotalScore(call.input) > 0)
           => call.result = SmallestPrefix(call.input)

\* C27 (as stated): the result is the smallest prefix holding 60% of the
\* total, exactly <<"metabolic/nutritional">> for an empty list or a total of
\* 0, never empty, and never holds a cluster whose score is 0.
C27_DominantAsStated ==
    \A k \in 1..Len(evaluations) :
        PrefixOrCatchAll(evaluations[k]) /\ ~ZeroInResult(evaluations[k])

\* C27 (amended): the result is the smallest prefix holding 60% of the total,
\* exactly <<"metabolic/nutritional">> for an empty list or a total of 0, and
\* never empty; when the total is positive it holds no cluster whose score
\* is 0.
C27_DominantPrefix ==
    \A k \in 1..Len(evaluations) :
        /\ PrefixOrCatchAll(evaluations[k])
        /\ TotalScore(evaluations[k].input) > 0 => ~ZeroInResult(evaluations[k])

\* a list whose top cluster holds less than 60% and whose third holds 0 has
\* been answered with its first two clusters
C27_TwoDominant ==
    /\ evaluations # <<>>
    /\ Len(evaluations[1].input) = 3
    /\ ~ReachesThreshold(evaluations[1].input, 1)
    /\ evaluations[1].input[3].score = 0
    /\ Len(evaluations[1].result) = 2

\* ------------------------------------------------------------------------
\* Specification of the LLM-backed calls
\* ------------------------------------------------------------------------
\* pieces of symptom text: plain, padded, empty, and holding delimiters
LlmTokens == {"fatigue", " weight loss ", "", "cough; fever", "rash\nfor 3 weeks"}
LlmAnswers == {"about 2 months"}

InitLlm ==
    /\ symptoms \in SeqsUpTo(LlmTokens, MaxTokens)
    /\ answers \in SeqsUpTo(LlmAnswers, MaxAnswers)
    /\ apiKey \in BOOLEAN
    /\ profileAge = ""
    /\ ran = {}
    /\ error = ""
    /\ IdleTime /\ IdleSimple /\ IdleDisplay /\ IdleAdvanced /\ IdleLlm /\ IdleProcess

\* the call returns to its caller or rejects with the error it did not catch
Called(name, response, result) ==
    /\ ran = {}
    /\ ran' = ran \cup {name}
    /\ llm' = [call |-> name, response |-> response,
               threw |-> result.threw, value |-> result.value]
    /\ error' = IF result.threw THEN "Groq API error" ELSE ""
    /\ UNCHANGED <<symptoms, answers, apiKey, profileAge, processVars, wizard, tcClient, tcServer, simpleVars,
                   displayVars, advanced>>

ExtractSymptomData ==
    \E response \in Responses :
        Called("extractSymptomData", response,
               extractSymptomData(apiKey, SymptomsText(symptoms),
                                  QuestionnaireAnswers(answers), response))

GenerateWellnessSummary ==
    \E response \in Responses :
        Called("generateWellnessSummary", response,
               generateWellnessSummary(apiKey, SymptomsText(symptoms), response))

\* reached only with a key: advancedSymptomAnalysis throws without one
GenerateConditionExplanation ==
    /\ apiKey
    /\ \E response \in Responses :
           Called("generateConditionExplanation", response,
                  generateConditionExplanation(response))

NextLlm == ExtractSymptomData \/ GenerateWellnessSummary \/ GenerateConditionExplanation

SpecLlm == InitLlm /\ [][NextLlm]_vars

\* ---- properties of the LLM-backed calls ----
LlmRan(name) == name \in ran /\ llm.call = name

\* the remote call failed: no key, or a response from which the function
\* obtains no parsed object
ContentUnparsable(response) ==
    response.kind = "content" /\ response.content \in {"  ", "It fits the symptoms. ", "null"}
RemoteFailed(response) ==
    ~apiKey \/ response.kind \in FailureKinds \/ ContentUnparsable(response)

\* the tokens of the symptom text: trimmed, non-empty, free of delimiters, and
\* the reported pieces themselves when none of them holds a delimiter
IsTokenList(tokens) ==
    /\ \A k \in 1..Len(tokens) :
           /\ tokens[k] # <<>>
           /\ Trim(tokens[k]) = tokens[k]
           /\ \A i \in 1..Len(tokens[k]) : ~IsDelimiter(tokens[k][i])
    /\ (\A k \in 1..Len(symptoms) : symptoms[k] \in {"fatigue", " weight loss ", ""})
           => tokens = SelectSeq([k \in 1..Len(symptoms) |-> Trim(C(symptoms[k]))] \o <<>>,
                                LAMBDA t : t # <<>>)

TOTAL_QUESTIONS == 10

\* bound on the questions generated since the last reset
MaxGenerated == 11

WizardVars ==
    <<symptoms, answers, apiKey, profileAge, ran, error, tcClient, tcServer,
      simpleVars, displayVars, advanced, llm, processVars>>

InitWizard ==
    /\ symptoms = <<>>
    /\ answers = <<>>
    /\ apiKey = FALSE
    /\ profileAge = ""
    /\ ran = {}
    /\ error = ""
    /\ IdleTime /\ IdleSimple /\ IdleDisplay /\ IdleAdvanced /\ IdleLlm /\ IdleProcess

\* const currentQuestion = questions[currentQuestionIndex - 1], defined or not
HasCurrentQuestion ==
    /\ wizard.currentQuestionIndex >= 1
    /\ wizard.currentQuestionIndex <= Len(wizard.questions)

currentQuestion == wizard.questions[wizard.currentQuestionIndex]

\* the question screen is rendered, with its two controls
QuestionShown == wizard.currentScreen = "questions" /\ HasCurrentQuestion

\* a text that differs from every text in questions
FreshQuestion == Len(wizard.questions) + 1

\* prev.slice(0, -1)
DropLast(list) == SubSeq(list, 1, Len(list) - 1)

HandleStart ==
    /\ wizard.currentScreen = "welcome"
    /\ wizard' = [wizard EXCEPT !.currentScreen = "profile"]
    /\ UNCHANGED WizardVars

HandleProfileNext ==
    /\ wizard.currentScreen = "profile"
    /\ wizard' = [wizard EXCEPT !.profile = TRUE, !.currentScreen = "symptoms"]
    /\ UNCHANGED WizardVars

HandleProfileBack ==
    /\ wizard.currentScreen = "profile"
    /\ wizard' = [wizard EXCEPT !.currentScreen = "welcome"]
    /\ UNCHANGED WizardVars

\* handleSymptomsNext up to its first await
HandleSymptomsNext ==
    /\ wizard.currentScreen = "symptoms"
    /\ wizard' = [wizard EXCEPT !.answers = <<>>, !.currentQuestionIndex = 1,
                                !.currentScreen = "loading", !.pending = "first"]
    /\ UNCHANGED WizardVars

\* handleSymptomsNext after the generator returned
FirstQuestionGenerated ==
    /\ wizard.currentScreen = "loading" /\ wizard.pending = "first"
    /\ wizard' = [wizard EXCEPT !.questions = <<1>>, !.currentScreen = "questions",
                                !.pending = ""]
    /\ UNCHANGED WizardVars

\* the catch block of handleSymptomsNext
FirstQuestionFailed ==
    /\ wizard.currentScreen = "loading" /\ wizard.pending = "first"
    /\ wizard' = [wizard EXCEPT !.currentScreen = "symptoms", !.pending = ""]
    /\ UNCHANGED WizardVars

HandleSymptomsBack ==
    /\ wizard.currentScreen = "symptoms"
    /\ wizard' = [wizard EXCEPT !.currentScreen = "profile"]
    /\ UNCHANGED WizardVars

\* handleQuestionAnswer up to its first await, or to the results screen
HandleQuestionAnswer ==
    /\ QuestionShown
    /\ wizard' = IF wizard.currentQuestionIndex < TOTAL_QUESTIONS
                 THEN [wizard EXCEPT !.answers = Append(@, currentQuestion),
                                     !.currentScreen = "loading", !.pending = "next"]
                 ELSE [wizard EXCEPT !.answers = Append(@, currentQuestion),
                                     !.currentScreen = "results"]
    /\ UNCHANGED WizardVars

\* handleQuestionAnswer after the generator returned a question that passed
\* the repeat checks
NextQuestionGenerated ==
    /\ wizard.currentScreen = "loading" /\ wizard.pending = "next"
    /\ Len(wizard.questions) < MaxGenerated
    /\ wizard' = [wizard EXCEPT !.questions = Append(@, FreshQuestion),
                                !.currentQuestionIndex = @ + 1,
                                !.currentScreen = "questions", !.pending = ""]
    /\ UNCHANGED WizardVars

\* the catch block of handleQuestionAnswer
NextQuestionFailed ==
    /\ wizard.currentScreen = "loading" /\ wizard.pending = "next"
    /\ wizard' = [wizard EXCEPT !.currentQuestionIndex = @ - 1,
                                !.answers = DropLast(@),
                                !.currentScreen = "questions", !.pending = ""]
    /\ UNCHANGED WizardVars

HandleQuestionBack ==
    /\ QuestionShown
    /\ wizard' = IF wizard.currentQuestionIndex > 1
                 THEN [wizard EXCEPT !.answers = DropLast(@),
                                     !.currentQuestionIndex = @ - 1]
                 ELSE [wizard EXCEPT !.currentScreen = "symptoms",
                                     !.currentQuestionIndex = 0,
                                     !.questions = <<>>, !.answers = <<>>]
    /\ UNCHANGED WizardVars

HandleRestart ==
    /\ wizard.currentScreen = "results" /\ wizard.profile
    /\ wizard' = NoWizard
    /\ UNCHANGED WizardVars

NextWizard ==
    \/ HandleStart
    \/ HandleProfileNext
    \/ HandleProfileBack
    \/ HandleSymptomsNext
    \/ FirstQuestionGenerated
    \/ FirstQuestionFailed
    \/ HandleSymptomsBack
    \/ HandleQuestionAnswer
    \/ NextQuestionGenerated
    \/ NextQuestionFailed
    \/ HandleQuestionBack
    \/ HandleRestart

SpecWizard == InitWizard /\ [][NextWizard]_vars

\* ---- properties of the wizard ----
\* C29: whenever the current screen is 'questions' the index satisfies
\* 1 <= currentQuestionIndex <= questions.length, so a question is displayed;
\* in particular a failure while generating the question after question 1
\* returns the user to question 1.
C29_QuestionAlwaysShown ==
    wizard.currentScreen = "questions" => HasCurrentQuestion

\* C30: on the 'results' screen questions and answers both have exactly
\* TOTAL_QUESTIONS entries and answers[i] is the answer given to questions[i];
\* on the 'questions' screen answers.length = currentQuestionIndex - 1 and
\* questions.length = currentQuestionIndex.
C30_AnswersMatchQuestions ==
    /\ wizard.currentScreen = "results" =>
           /\ Len(wizard.questions) = TOTAL_QUESTIONS
           /\ Len(wizard.answers) = TOTAL_QUESTIONS
           /\ \A i \in 1..TOTAL_QUESTIONS : wizard.answers[i] = wizard.questions[i]
    /\ wizard.currentScreen = "questions" =>
           /\ Len(wizard.answers) = wizard.currentQuestionIndex - 1
           /\ Len(wizard.questions) = wizard.currentQuestionIndex

\* the results screen alone: ten questions, ten answers, each answer given to
\* the question of its position
C30_ResultsAligned ==
    wizard.currentScreen = "results" =>
        /\ Len(wizard.questions) = TOTAL_QUESTIONS
        /\ Len(wizard.answers) = TOTAL_QUESTIONS
        /\ \A i \in 1..TOTAL_QUESTIONS : wizard.answers[i] = wizard.questions[i]

====
